---- MODULE Spec2Model ----
(***************************************************************************)
(* Resumable channel batch processing: the processing-state store          *)
(* (utils/processing_state.py) and the channel batch driver                *)
(* (process_channel.py).                                                   *)
(*                                                                         *)
(* A run of process_channel is a sequence of steps; between the steps the   *)
(* process can be killed, and a later run finds the files the earlier      *)
(* ones left.                                                              *)
(***************************************************************************)
EXTENDS Integers, Sequences, FiniteSets, TLC

\* ------------------------------------------------------------------ bounds

\* Longest video list a discovery returns in the model.
MaxLen == 2

\* Work done in one behaviour: runs started plus run_pipeline calls returned.
MaxWork == 4

\* Longest list find_resume_index is called on when taken on its own.
MaxResumeLen == 3

\* Largest total in a state update_processing_state is called on when taken
\* on its own.
MaxTotal == 1

\* ----------------------------------------------------------------- strings

\* A string of the program is a TLA+ string; Chars gives its characters, on
\* which the substring tests and the regular expressions of the code are
\* computed, and Str gives back the string of a sequence of characters.
\* Python's None is the value None; no string of the model spells it.
None == "None"

STRINGS ==
    {"",
     "http://tiktok.com/video/1",
     "http://tiktok.com/video/12",
     "http://tiktok.com/photo/3",
     "http://youtu.be/abcdefghijk",
     "http://youtube.com/watch?v=abcdefghijk",
     "http://example.com/video/7",
     "tiktok.com",
     "youtube.com",
     "youtu.be",
     "http://tiktok.com/@c",
     "c",
     "T",
     "1",
     "12",
     "abcdefghijk",
     "tiktok_video",
     "youtube_video",
     "video",
     "c:T.md",
     "c:1.md",
     "c:12.md",
     "c:tiktok_video.md"}

Chars(s) ==
    CASE s = "" -> <<>>
      [] s = "http://tiktok.com/video/1" -> <<"h", "t", "t", "p", ":", "/", "/", "t", "i", "k", "t", "o", "k", ".", "c", "o", "m", "/", "v", "i", "d", "e", "o", "/", "1">>
      [] s = "http://tiktok.com/video/12" -> <<"h", "t", "t", "p", ":", "/", "/", "t", "i", "k", "t", "o", "k", ".", "c", "o", "m", "/", "v", "i", "d", "e", "o", "/", "1", "2">>
      [] s = "http://tiktok.com/photo/3" -> <<"h", "t", "t", "p", ":", "/", "/", "t", "i", "k", "t", "o", "k", ".", "c", "o", "m", "/", "p", "h", "o", "t", "o", "/", "3">>
      [] s = "http://youtu.be/abcdefghijk" -> <<"h", "t", "t", "p", ":", "/", "/", "y", "o", "u", "t", "u", ".", "b", "e", "/", "a", "b", "c", "d", "e", "f", "g", "h", "i", "j", "k">>
      [] s = "http://youtube.com/watch?v=abcdefghijk" -> <<"h", "t", "t", "p", ":", "/", "/", "y", "o", "u", "t", "u", "b", "e", ".", "c", "o", "m", "/", "w", "a", "t", "c", "h", "?", "v", "=", "a", "b", "c", "d", "e", "f", "g", "h", "i", "j", "k">>
      [] s = "http://example.com/video/7" -> <<"h", "t", "t", "p", ":", "/", "/", "e", "x", "a", "m", "p", "l", "e", ".", "c", "o", "m", "/", "v", "i", "d", "e", "o", "/", "7">>
      [] s = "tiktok.com" -> <<"t", "i", "k", "t", "o", "k", ".", "c", "o", "m">>
    [] s = "youtube.com" -> <<"y", "o", "u", "t", "u", "b", "e", ".", "c", "o", "m">>
    [] s = "youtu.be" -> <<"y", "o", "u", "t", "u", ".", "b", "e">>
    [] s = "http://tiktok.com/@c" -> <<"h", "t", "t", "p", ":", "/", "/", "t", "i", "k", "t", "o", "k", ".", "c", "o", "m", "/", "@", "c">>
      [] s = "c" -> <<"c">>
      [] s = "T" -> <<"T">>
      [] s = "1" -> <<"1">>
      [] s = "12" -> <<"1", "2">>
      [] s = "abcdefghijk" -> <<"a", "b", "c", "d", "e", "f", "g", "h", "i", "j", "k">>
      [] s = "tiktok_video" -> <<"t", "i", "k", "t", "o", "k", "_", "v", "i", "d", "e", "o">>
      [] s = "youtube_video" -> <<"y", "o", "u", "t", "u", "b", "e", "_", "v", "i", "d", "e", "o">>
      [] s = "video" -> <<"v", "i", "d", "e", "o">>
      [] s = "c:T.md" -> <<"c", ":", "T", ".", "m", "d">>
      [] s = "c:1.md" -> <<"c", ":", "1", ".", "m", "d">>
      [] s = "c:12.md" -> <<"c", ":", "1", "2", ".", "m", "d">>
      [] s = "c:tiktok_video.md" -> <<"c", ":", "t", "i", "k", "t", "o", "k", "_", "v", "i", "d", "e", "o", ".", "m", "d">>

Str(cs) == CHOOSE s \in STRINGS : Chars(s) = cs

Digits == {"0", "1", "2", "3", "4", "5", "6", "7", "8", "9"}

Letters ==
    {"a", "b", "c", "d", "e", "f", "g", "h", "i", "j", "k", "l", "m",
     "n", "o", "p", "q", "r", "s", "t", "u", "v", "w", "x", "y", "z",
     "A", "B", "C", "D", "E", "F", "G", "H", "I", "J", "K", "L", "M",
     "N", "O", "P", "Q", "R", "S", "T", "U", "V", "W", "X", "Y", "Z"}

\* The class [0-9A-Za-z_-] of the YouTube pattern.
IdChars == Digits \cup Letters \cup {"_", "-"}

\* cs[k+1 .. k+Len(sub)] = sub  (the literal sub matches at offset k).
MatchAt(cs, k, sub) ==
    /\ k + Len(sub) <= Len(cs)
    /\ SubSeq(cs, k + 1, k + Len(sub)) = sub

\* Python's `sub in s` on strings.
Contains(s, sub) == \E k \in 0..Len(Chars(s)) : MatchAt(Chars(s), k, Chars(sub))

\* The longest run of characters of class cls starting at position p of cs.
RECURSIVE RunOf(_, _, _)
RunOf(cs, p, cls) ==
    IF p <= Len(cs) /\ cs[p] \in cls
    THEN <<cs[p]>> \o RunOf(cs, p + 1, cls)
    ELSE <<>>

Min(S) == CHOOSE x \in S : \A y \in S : x <= y

S_video == <<"/", "v", "i", "d", "e", "o", "/">>

\* re.search(r'/video/(\d+)', url): the offsets where the pattern matches.
TikTokMatches(cs) ==
    {k \in 0..Len(cs) :
        /\ MatchAt(cs, k, S_video)
        /\ RunOf(cs, k + Len(S_video) + 1, Digits) # <<>>}

\* re.search(r'(?:v=|\/)([0-9A-Za-z_-]{11}).*', url): the pairs <<offset,
\* first position of the group>> where the pattern matches.
YouTubeMatches(cs) ==
    {m \in (0..Len(cs)) \X (1..(Len(cs) + 1)) :
        /\ \/ MatchAt(cs, m[1], <<"v", "=">>) /\ m[2] = m[1] + 3
           \/ MatchAt(cs, m[1], <<"/">>) /\ m[2] = m[1] + 2
        /\ m[2] + 10 <= Len(cs)
        /\ \A j \in m[2]..(m[2] + 10) : cs[j] \in IdChars}

extract_video_id(video_url) ==
    LET cs == Chars(video_url)
    IN  IF Contains(video_url, "tiktok.com")
        THEN IF TikTokMatches(cs) # {}
             THEN Str(RunOf(cs, Min(TikTokMatches(cs)) + Len(S_video) + 1, Digits))
             ELSE None
        ELSE IF Contains(video_url, "youtube.com") \/ Contains(video_url, "youtu.be")
             THEN IF YouTubeMatches(cs) # {}
                  THEN LET k == Min({m[1] : m \in YouTubeMatches(cs)})
                           m == CHOOSE x \in YouTubeMatches(cs) : x[1] = k
                       IN  Str(SubSeq(cs, m[2], m[2] + 10))
                  ELSE None
             ELSE None

\* --------------------------------------------------------- the URL universe

\* Videos with the IDs 1 and 12, and a post whose URL carries no video ID.
UrlA == "http://tiktok.com/video/1"
UrlB == "http://tiktok.com/video/12"
UrlN == "http://tiktok.com/photo/3"

URLS == {UrlA, UrlB, UrlN}

\* extract_video_id on the URLs of the model, computed once.
VideoIdOf == [u \in URLS |-> extract_video_id(u)]

\* Discovery returns each URL once (scrape_videos removes duplicates), and
\* process_channel returns at once on an empty list.
RECURSIVE ListsOfLen(_)
ListsOfLen(n) ==
    IF n = 0 THEN {<<>>}
    ELSE {Append(l, u) : l \in ListsOfLen(n - 1), u \in URLS}

IsDuplicateFree(l) == \A i, j \in 1..Len(l) : l[i] = l[j] => i = j

LISTS == {l \in UNION {ListsOfLen(n) : n \in 1..MaxLen} : IsDuplicateFree(l)}

\* The channel of the model: http://tiktok.com/@c, whose name is "c".
CHANNEL_URL == "http://tiktok.com/@c"
CHANNEL_NAME == "c"

\* Titles the summarizer's notes can carry, already cleaned for a filename.
TITLES == {"T"}

\* ------------------------------------------------------------ run_pipeline

\* The video_id run_pipeline puts in file names (lines 40-62): as
\* extract_video_id, with a fixed word where the URL carries none.
pipeline_video_id(url) ==
    IF Contains(url, "tiktok.com")
    THEN IF extract_video_id(url) # None THEN extract_video_id(url) ELSE "tiktok_video"
    ELSE IF Contains(url, "youtube.com") \/ Contains(url, "youtu.be")
         THEN IF extract_video_id(url) # None THEN extract_video_id(url) ELSE "youtube_video"
         ELSE "video"

\* f"{channel_name}:{title_clean}.md", or with the video_id in the place of the
\* title when the title generation failed.
NotesFilename(channel_name, part) ==
    Str(Chars(channel_name) \o <<":">> \o Chars(part) \o <<".", "m", "d">>)

\* The names a notes file of the model can carry.
NOTES_FILES ==
    {NotesFilename(CHANNEL_NAME, part) :
        part \in TITLES \cup {pipeline_video_id(u) : u \in URLS}}

\* The glob pattern *{video_id}* on the names of the model, computed once.
GlobMatches ==
    [f \in NOTES_FILES, v \in {VideoIdOf[u] : u \in URLS} \ {None} |-> Contains(f, v)]

\* ------------------------------------------------------------- the files

NoFile == [kind |-> "absent"]
PartialFile == [kind |-> "partial"]
JsonFile(doc) == [kind |-> "json", doc |-> doc]

NoState == [none |-> TRUE]

\* What open and json.load get of a file: the file, or, when the read fails
\* (IOError) or the content does not parse (JSONDecodeError), nothing usable.
UnreadableFile == [kind |-> "unreadable"]

ReadFile(file, ok) == IF ok \/ file.kind = "absent" THEN file ELSE UnreadableFile

VARIABLES
    pc,             \* where the process is: "idle" when no run is active
    work,           \* runs started plus run_pipeline calls returned so far
    channel,        \* the list the last discovery returned (at first: will return)
    video_urls,     \* process_channel: the discovered list
    skip_existing,  \* process_channel options
    resume,
    reset,
    start_index,    \* process_channel: index the loop starts at
    idx,            \* 0-based position of the video being handled (i - 1)
    state,          \* process_channel: the in-memory state dictionary
    successful,     \* process_channel: tallies of the summary
    failed,
    skipped,
    save_ctx,       \* which call of save_processing_state is running
    state_file,     \* <channel_dir>/.processing_state.json
    temp_file,      \* <channel_dir>/.processing_state.json.tmp
    notes_dir,      \* names of the files in <channel_dir>/notes
    result,         \* how the handling of the last video ended
    handled,        \* history: the videos of this run whose outcome is reached
    wrote,          \* history: positions whose outcome save replaced the file
    save_failed,    \* history: a save of this run returned False
    fresh,          \* history: this run began on a newly created state
    no_notes,       \* history: this run began with an empty notes directory
    call,           \* a function called on its own: its arguments and its result
    lastrun         \* history: how the previous run ended

vars ==
    <<pc, work, channel, video_urls, skip_existing, resume, reset, start_index,
      idx, state, successful, failed, skipped, save_ctx, state_file, temp_file,
      notes_dir, result, handled, wrote, save_failed, fresh, no_notes, call, lastrun>>

\* Python truthiness of an Optional[str].
Truthy(s) == s # None /\ s # ""

\* ------------------------------------------------------- processing_state.py

load_processing_state(file) ==
    IF file.kind = "absent" THEN NoState
    ELSE IF file.kind = "json" THEN file.doc
    ELSE NoState

\* Variant: the initial state carries a last processed URL.
create_initial_state_with_url(channel_url, channel_name) ==
    [channel_url |-> channel_url,
     channel_name |-> channel_name,
     last_processed_url |-> UrlA,
     last_processed_index |-> 0,
     last_updated |-> 0,
     processed_videos |-> [v \in {} |-> None],
     total_processed |-> 0,
     total_skipped |-> 0,
     total_failed |-> 0]

create_initial_state(channel_url, channel_name) ==
    [channel_url |-> channel_url,
     channel_name |-> channel_name,
     last_processed_url |-> None,
     last_processed_index |-> -1,
     last_updated |-> 0,           \* None
     processed_videos |-> [v \in {} |-> None],
     total_processed |-> 0,
     total_skipped |-> 0,
     total_failed |-> 0]

\* Variant: a record whose notes file is gone falls back to the directory
\* search.
is_video_processed_search_when_gone(video_id, st, notes) ==
    LET pv == IF st = NoState THEN [v \in {} |-> None] ELSE st.processed_videos
        stateSays ==
            /\ video_id \in DOMAIN pv
            /\ Truthy(pv[video_id].notes_file)
            /\ pv[video_id].notes_file \in notes
        existing_notes == {f \in notes : GlobMatches[f, video_id]}
    IN  IF stateSays
        THEN {<<TRUE, pv[video_id].notes_file>>}
        ELSE IF existing_notes # {}
             THEN {<<TRUE, f>> : f \in existing_notes}
             ELSE {<<FALSE, None>>}

\* Variant: any state record makes the video count as processed.
is_video_processed_any_record(video_id, st, notes) ==
    LET pv == st.processed_videos
        existing_notes == {f \in notes : GlobMatches[f, video_id]}
    IN  IF video_id \in DOMAIN pv
        THEN {<<TRUE, pv[video_id].notes_file>>}
        ELSE IF existing_notes # {}
             THEN {<<TRUE, f>> : f \in existing_notes}
             ELSE {<<FALSE, None>>}

\* Variant: the state record is not consulted, only the directory search.
is_video_processed_glob_only(video_id, st, notes) ==
    LET existing_notes == {f \in notes : GlobMatches[f, video_id]}
    IN  IF existing_notes # {}
        THEN {<<TRUE, f>> : f \in existing_notes}
        ELSE {<<FALSE, None>>}

\* Variant: the notes file the record names is not looked for.
is_video_processed_trusts_record(video_id, st, notes) ==
    LET pv == IF st = NoState THEN [v \in {} |-> None] ELSE st.processed_videos
        stateSays ==
            /\ video_id \in DOMAIN pv
            /\ Truthy(pv[video_id].notes_file)
        existing_notes == {f \in notes : GlobMatches[f, video_id]}
    IN  IF stateSays
        THEN {<<TRUE, pv[video_id].notes_file>>}
        ELSE IF existing_notes # {}
             THEN {<<TRUE, f>> : f \in existing_notes}
             ELSE {<<FALSE, None>>}

\* The possible results <<is_processed, notes_filename>>: the fallback returns
\* the first file the directory listing gives, in no defined order.
is_video_processed(video_id, st, notes) ==
    LET pv == IF st = NoState THEN [v \in {} |-> None] ELSE st.processed_videos
        stateSays ==
            /\ video_id \in DOMAIN pv
            /\ Truthy(pv[video_id].notes_file)
        existing_notes == {f \in notes : GlobMatches[f, video_id]}
    IN  IF stateSays
        THEN IF pv[video_id].notes_file \in notes
             THEN {<<TRUE, pv[video_id].notes_file>>}
             ELSE {<<FALSE, None>>}
        ELSE IF existing_notes # {}
             THEN {<<TRUE, f>> : f \in existing_notes}
             ELSE {<<FALSE, None>>}

\* Variant: the index of the URL itself is returned, not the one after it.
find_resume_index_same(urls, last_processed_url) ==
    IF ~Truthy(last_processed_url) THEN 0
    ELSE IF \E i \in 1..Len(urls) : urls[i] = last_processed_url
         THEN Min({i \in 1..Len(urls) : urls[i] = last_processed_url}) - 1
         ELSE 0

\* Variant: a resume point past the end of the list wraps to the beginning.
find_resume_index_wrap(urls, last_processed_url) ==
    IF ~Truthy(last_processed_url) THEN 0
    ELSE IF \E i \in 1..Len(urls) : urls[i] = last_processed_url
         THEN LET next == Min({i \in 1..Len(urls) : urls[i] = last_processed_url})
              IN  IF next >= Len(urls) THEN 0 ELSE next
         ELSE 0

find_resume_index(urls, last_processed_url) ==
    IF ~Truthy(last_processed_url) THEN 0
    ELSE IF \E i \in 1..Len(urls) : urls[i] = last_processed_url
         THEN LET last_index == Min({i \in 1..Len(urls) : urls[i] = last_processed_url}) - 1
              IN  last_index + 1
         ELSE 0

\* datetime.now() as a logical time: later than every time stamp in the state
\* (last_updated is the latest of them, 0 standing for None).
Now(st) == st.last_updated + 1

\* Variant: a record that exists is kept (the first write wins).
update_processing_state_keep_first(st, video_id, video_url, notes_file, status, now) ==
    [st EXCEPT
        !.processed_videos =
            [v \in DOMAIN st.processed_videos \cup {video_id} |->
                IF v \in DOMAIN st.processed_videos
                THEN st.processed_videos[v]
                ELSE [url |-> video_url,
                      video_id |-> video_id,
                      notes_file |-> notes_file,
                      processed_at |-> now,
                      status |-> status]],
        !.last_processed_url = video_url,
        !.last_updated = now,
        !.total_processed = IF status = "success" THEN @ + 1 ELSE @,
        !.total_failed = IF status = "failed" THEN @ + 1 ELSE @,
        !.total_skipped = IF status = "skipped" THEN @ + 1 ELSE @]

\* Variant: a skip counts as processed.
update_processing_state_skip_counts(st, video_id, video_url, notes_file, status, now) ==
    [st EXCEPT
        !.processed_videos =
            [v \in DOMAIN st.processed_videos \cup {video_id} |->
                IF v = video_id
                THEN [url |-> video_url,
                      video_id |-> video_id,
                      notes_file |-> notes_file,
                      processed_at |-> now,
                      status |-> status]
                ELSE st.processed_videos[v]],
        !.last_processed_url = video_url,
        !.last_updated = now,
        !.total_processed = IF status \in {"success", "skipped"} THEN @ + 1 ELSE @,
        !.total_failed = IF status = "failed" THEN @ + 1 ELSE @,
        !.total_skipped = IF status = "skipped" THEN @ + 1 ELSE @]

\* Variant: the totals are the numbers of records of each status.
update_processing_state_recount(st, video_id, video_url, notes_file, status, now) ==
    LET pv == [v \in DOMAIN st.processed_videos \cup {video_id} |->
                  IF v = video_id
                  THEN [url |-> video_url,
                        video_id |-> video_id,
                        notes_file |-> notes_file,
                        processed_at |-> now,
                        status |-> status]
                  ELSE st.processed_videos[v]]
    IN  [st EXCEPT
            !.processed_videos = pv,
            !.last_processed_url = video_url,
            !.last_updated = now,
            !.total_processed = Cardinality({v \in DOMAIN pv : pv[v].status = "success"}),
            !.total_failed = Cardinality({v \in DOMAIN pv : pv[v].status = "failed"}),
            !.total_skipped = Cardinality({v \in DOMAIN pv : pv[v].status = "skipped"})]

\* Variant: only a success moves last_processed_url.
update_processing_state_success_only(st, video_id, video_url, notes_file, status, now) ==
    [st EXCEPT
        !.processed_videos =
            [v \in DOMAIN st.processed_videos \cup {video_id} |->
                IF v = video_id
                THEN [url |-> video_url,
                      video_id |-> video_id,
                      notes_file |-> notes_file,
                      processed_at |-> now,
                      status |-> status]
                ELSE st.processed_videos[v]],
        !.last_processed_url = IF status = "success" THEN video_url ELSE @,
        !.last_updated = now,
        !.total_processed = IF status = "success" THEN @ + 1 ELSE @,
        !.total_failed = IF status = "failed" THEN @ + 1 ELSE @,
        !.total_skipped = IF status = "skipped" THEN @ + 1 ELSE @]

\* Variant: every recorded outcome counts as processed.
update_processing_state_count_all(st, video_id, video_url, notes_file, status, now) ==
    [st EXCEPT
        !.processed_videos =
            [v \in DOMAIN st.processed_videos \cup {video_id} |->
                IF v = video_id
                THEN [url |-> video_url,
                      video_id |-> video_id,
                      notes_file |-> notes_file,
                      processed_at |-> now,
                      status |-> status]
                ELSE st.processed_videos[v]],
        !.last_processed_url = video_url,
        !.last_updated = now,
        !.total_processed = @ + 1,
        !.total_failed = IF status = "failed" THEN @ + 1 ELSE @,
        !.total_skipped = IF status = "skipped" THEN @ + 1 ELSE @]

\* Variant: a failure keeps the notes file of the record it replaces.
update_processing_state_keeps_notes(st, video_id, video_url, notes_file, status, now) ==
    [st EXCEPT
        !.processed_videos =
            [v \in DOMAIN st.processed_videos \cup {video_id} |->
                IF v = video_id
                THEN [url |-> video_url,
                      video_id |-> video_id,
                      notes_file |-> IF /\ notes_file = None
                                        /\ video_id \in DOMAIN st.processed_videos
                                     THEN st.processed_videos[video_id].notes_file
                                     ELSE notes_file,
                      processed_at |-> now,
                      status |-> status]
                ELSE st.processed_videos[v]],
        !.last_processed_url = video_url,
        !.last_updated = now,
        !.total_processed = IF status = "success" THEN @ + 1 ELSE @,
        !.total_failed = IF status = "failed" THEN @ + 1 ELSE @,
        !.total_skipped = IF status = "skipped" THEN @ + 1 ELSE @]

update_processing_state(st, video_id, video_url, notes_file, status, now) ==
    [st EXCEPT
        !.processed_videos =
            [v \in DOMAIN st.processed_videos \cup {video_id} |->
                IF v = video_id
                THEN [url |-> video_url,
                      video_id |-> video_id,
                      notes_file |-> notes_file,
                      processed_at |-> now,
                      status |-> status]
                ELSE st.processed_videos[v]],
        !.last_processed_url = video_url,
        !.last_updated = now,
        !.total_processed = IF status = "success" THEN @ + 1 ELSE @,
        !.total_failed = IF status = "failed" THEN @ + 1 ELSE @,
        !.total_skipped = IF status = "skipped" THEN @ + 1 ELSE @]


\* ------------------------------------------------------ run_pipeline, cont.

\* How a run_pipeline call can end, as process_channel sees it: a notes path
\* (the notes file is then in the notes directory), no notes, or an exception.
PipelineOutcomes(url, channel_name) ==
    {[kind |-> "notes", file |-> NotesFilename(channel_name, part)] :
        part \in TITLES \cup {pipeline_video_id(url)}}
    \cup {[kind |-> "none", file |-> None], [kind |-> "raise", file |-> None]}

\* The outcomes on the URLs of the model, computed once.
OutcomesOf == [u \in URLS |-> PipelineOutcomes(u, CHANNEL_NAME)]

\* --------------------------------------------------------- process_channel

SavePcs == {"save", "save_partial", "save_written"}

\* What is kept of a run after it ended, for as long as the channel lists the
\* same videos: the position the run had come to (the position in flight when
\* it was killed, the length of the list when it ran to its summary, -1 when
\* it was killed before its loop), and of the video before that position:
\* whether the run recorded its outcome under a video ID while none of its
\* saves failed, and whether its outcome was failed.
NoRun ==
    [position |-> -1, prev_saved |-> FALSE, prev_failed |-> FALSE]

NoCall == [fn |-> "none"]

Init ==
    /\ pc = "idle"
    /\ work = 0
    /\ channel \in LISTS
    /\ video_urls = <<>>
    /\ skip_existing = FALSE
    /\ resume = FALSE
    /\ reset = FALSE
    /\ start_index = 0
    /\ idx = 0
    /\ state = NoState
    /\ successful = 0
    /\ failed = 0
    /\ skipped = 0
    /\ save_ctx = "none"
    /\ state_file = NoFile
    /\ temp_file = NoFile
    /\ notes_dir = {}
    /\ result = "none"
    /\ handled = <<>>
    /\ wrote = <<>>
    /\ save_failed = FALSE
    /\ fresh = FALSE
    /\ no_notes = FALSE
    /\ lastrun = NoRun
    /\ call = NoCall

\* Variant: the resume option is not honoured.
ResumeStart_ignored(st, urls, rs) == 0

\* Lines 122-130: the index the loop starts at.
ResumeStart(st, urls, rs) ==
    IF rs /\ Truthy(st.last_processed_url)
    THEN find_resume_index(urls, st.last_processed_url)
    ELSE 0

\* What a discovery can return when the one before returned `urls`: the same
\* list, or the list with one video removed or one video published since.
WithoutOne(urls) ==
    {SubSeq(urls, 1, k - 1) \o SubSeq(urls, k + 1, Len(urls)) : k \in 1..Len(urls)}

Discoverable(urls) ==
    {urls} \cup {l \in LISTS : l \in WithoutOne(urls) \/ urls \in WithoutOne(l)}

\* process_channel up to the first save or, when a state was loaded, up to the
\* loop (lines 57-130). What is kept of the previous run is dropped when the
\* list is no longer the same.
DiscoverableFrom == [urls \in LISTS |-> Discoverable(urls)]

Start(sk, rs, rst) ==
    /\ pc = "idle"
    /\ work < MaxWork
    /\ work' = work + 1
    /\ \E urls \in DiscoverableFrom[channel], ok \in BOOLEAN :
        /\ channel' = urls
        /\ lastrun' = IF urls = channel THEN lastrun ELSE NoRun
        /\ video_urls' = urls
        /\ LET loaded == load_processing_state(ReadFile(state_file, ok))
           IN  IF rst \/ loaded = NoState
               THEN /\ state' = create_initial_state(CHANNEL_URL, CHANNEL_NAME)
                    /\ fresh' = TRUE
                    /\ pc' = "save"
                    /\ save_ctx' = "init"
                    /\ start_index' = 0
                    /\ idx' = 0
               ELSE /\ state' = loaded
                    /\ fresh' = FALSE
                    /\ pc' = "loop"
                    /\ save_ctx' = "none"
                    /\ start_index' = ResumeStart(loaded, urls, rs)
                    /\ idx' = ResumeStart(loaded, urls, rs)
    /\ skip_existing' = sk
    /\ resume' = rs
    /\ reset' = rst
    /\ successful' = 0
    /\ failed' = 0
    /\ skipped' = 0
    /\ handled' = <<>>
    /\ wrote' = <<>>
    /\ save_failed' = FALSE
    /\ result' = "none"
    /\ no_notes' = (notes_dir = {})
    /\ UNCHANGED <<state_file, temp_file, notes_dir, call>>

\* Variant: after a video's save the loop stays at the same video.
AfterSave_retry ==
    /\ pc' = "loop"
    /\ save_ctx' = "none"
    /\ IF save_ctx = "init"
       THEN /\ start_index' = ResumeStart(state, video_urls, resume)
            /\ idx' = ResumeStart(state, video_urls, resume)
       ELSE /\ start_index' = start_index
            /\ idx' = idx

\* save_processing_state returned: the caller goes on (the return value is
\* ignored): after the first save to the loop, after a video's save to the
\* next video.
AfterSave ==
    /\ pc' = "loop"
    /\ save_ctx' = "none"
    /\ IF save_ctx = "init"
       THEN /\ start_index' = ResumeStart(state, video_urls, resume)
            /\ idx' = ResumeStart(state, video_urls, resume)
       ELSE /\ start_index' = start_index
            /\ idx' = idx + 1

\* Variant: the document is written straight into the state file.
OpenTemp_in_place(temp, final) == [temp |-> temp, final |-> PartialFile]

\* open(temp_file, 'w'): what the two paths hold while the document is being
\* written.
OpenTemp(temp, final) == [temp |-> PartialFile, final |-> final]

\* save_processing_state, line 56: the temporary file is opened for writing.
SaveOpen ==
    /\ pc = "save"
    /\ temp_file' = OpenTemp(temp_file, state_file).temp
    /\ state_file' = OpenTemp(temp_file, state_file).final
    /\ pc' = "save_partial"
    /\ UNCHANGED <<work, channel, video_urls, skip_existing, resume, reset,
                   start_index, idx, state, successful, failed, skipped, save_ctx,
                   notes_dir, result, handled, wrote,
                   save_failed, fresh, no_notes, call, lastrun>>

\* Line 57: the document is written and the file closed.
SaveDump ==
    /\ pc = "save_partial"
    /\ temp_file' = JsonFile(state)
    /\ pc' = "save_written"
    /\ UNCHANGED <<work, channel, video_urls, skip_existing, resume, reset,
                   start_index, idx, state, successful, failed, skipped, save_ctx,
                   state_file, notes_dir, result, handled, wrote,
                   save_failed, fresh, no_notes, call, lastrun>>

\* What temp_file.replace(state_file) leaves at the two paths.
Replace(temp, final) == [final |-> temp, temp |-> NoFile]

\* Line 60: the temporary file replaces the state file; True is returned.
SaveReplace ==
    /\ pc = "save_written"
    /\ state_file' = Replace(temp_file, state_file).final
    /\ temp_file' = Replace(temp_file, state_file).temp
    /\ wrote' = IF save_ctx = "video" THEN Append(wrote, idx) ELSE wrote
    /\ AfterSave
    /\ UNCHANGED <<work, channel, video_urls, skip_existing, resume, reset, state,
                   successful, failed, skipped, notes_dir, result, handled,
                   save_failed, fresh, no_notes, call, lastrun>>

\* Variant: after a failed save the caller goes back to the saved state.
SaveFail_forgets ==
    /\ pc \in SavePcs
    /\ temp_file' = NoFile
    /\ save_failed' = TRUE
    /\ state' = IF state_file.kind = "json" THEN state_file.doc ELSE state
    /\ AfterSave
    /\ UNCHANGED <<work, channel, video_urls, skip_existing, resume, reset,
                   successful, failed, skipped, state_file, notes_dir,
                   result, handled, wrote, fresh, no_notes, call, lastrun>>

\* Lines 62-66: an IOError in mkdir, open, dump or replace; the temporary file
\* is removed if it exists and False is returned.
SaveFail ==
    /\ pc \in SavePcs
    /\ temp_file' = NoFile
    /\ save_failed' = TRUE
    /\ AfterSave
    /\ UNCHANGED <<work, channel, video_urls, skip_existing, resume, reset, state,
                   successful, failed, skipped, state_file, notes_dir,
                   result, handled, wrote, fresh, no_notes, call, lastrun>>


\* The video the loop is at.
VideoUrl == video_urls[idx + 1]

\* The state has a record for the ID that names a notes file which is in the
\* notes directory.
Tracked(video_id, st, notes) ==
    /\ video_id \in DOMAIN st.processed_videos
    /\ Truthy(st.processed_videos[video_id].notes_file)
    /\ st.processed_videos[video_id].notes_file \in notes

Entry(outcome, video_id) ==
    [pos |-> idx, outcome |-> outcome, has_id |-> Truthy(video_id),
     tracked |-> Truthy(video_id) /\ Tracked(video_id, state, notes_dir)]

\* Variant: with skip_existing, a video without an ID is skipped as well.
SkipVideo_without_id ==
    /\ pc = "loop"
    /\ idx < Len(video_urls)
    /\ skip_existing
    /\ LET video_id == VideoIdOf[VideoUrl]
       IN  IF Truthy(video_id)
           THEN \E r \in is_video_processed(video_id, state, notes_dir) :
                  /\ r[1]
                  /\ state' = update_processing_state(state, video_id, VideoUrl,
                                                      r[2], "skipped", Now(state))
                  /\ handled' = Append(handled, Entry("skipped", video_id))
           ELSE /\ state' = state
                /\ handled' = Append(handled, Entry("skipped", video_id))
    /\ skipped' = skipped + 1
    /\ result' = "skipped"
    /\ pc' = "save"
    /\ save_ctx' = "video"
    /\ UNCHANGED <<work, channel, video_urls, skip_existing, resume, reset,
                   start_index, idx, successful, failed, state_file, temp_file,
                   notes_dir, wrote, save_failed, fresh, no_notes, call, lastrun>>

\* Lines 148-161: the video is found processed and recorded as skipped.
SkipVideo ==
    /\ pc = "loop"
    /\ idx < Len(video_urls)
    /\ LET video_id == VideoIdOf[VideoUrl]
       IN  /\ skip_existing
           /\ Truthy(video_id)
           /\ \E r \in is_video_processed(video_id, state, notes_dir) :
                /\ r[1]
                /\ skipped' = skipped + 1
                /\ state' = update_processing_state(state, video_id, VideoUrl,
                                                    r[2], "skipped", Now(state))
                /\ handled' = Append(handled, Entry("skipped", video_id))
    /\ result' = "skipped"
    /\ pc' = "save"
    /\ save_ctx' = "video"
    /\ UNCHANGED <<work, channel, video_urls, skip_existing, resume, reset,
                   start_index, idx, successful, failed, state_file, temp_file,
                   notes_dir, wrote, save_failed, fresh, no_notes, call, lastrun>>

\* Lines 148-166: the video is not skipped and run_pipeline is called.
InvokePipeline ==
    /\ pc = "loop"
    /\ idx < Len(video_urls)
    /\ LET video_id == VideoIdOf[VideoUrl]
       IN  ~(/\ skip_existing
             /\ Truthy(video_id)
             /\ \A r \in is_video_processed(video_id, state, notes_dir) : r[1])
    /\ pc' = "pipeline"
    /\ UNCHANGED <<work, channel, video_urls, skip_existing, resume, reset,
                   start_index, idx, state, successful, failed, skipped, save_ctx,
                   state_file, temp_file, notes_dir, result, handled,
                   wrote, save_failed, fresh, no_notes, call, lastrun>>

\* Variant: a failure is counted but not written into the state.
Record_no_failures(st, video_id, video_url, notes_filename, status, position, now) ==
    IF Truthy(video_id) /\ status # "failed"
    THEN LET updated == update_processing_state(st, video_id, video_url,
                                                notes_filename, status, now)
         IN  IF status = "success"
             THEN [updated EXCEPT !.last_processed_index = position]
             ELSE updated
    ELSE st

\* The state update of one pipeline outcome (lines 173-176, 182-184, 190-192):
\* nothing is recorded for a video without an ID.
Record(st, video_id, video_url, notes_filename, status, position, now) ==
    IF Truthy(video_id)
    THEN LET updated == update_processing_state(st, video_id, video_url,
                                                notes_filename, status, now)
         IN  IF status = "success"
             THEN [updated EXCEPT !.last_processed_index = position]
             ELSE updated
    ELSE st

\* Variant: an exception ends the batch.
AfterPipeline_abort(kind, video_id) ==
    IF kind = "raise" THEN "done"
    ELSE IF Truthy(video_id) THEN "save" ELSE "loop"

\* Variant: the state is saved after every pipeline outcome.
AfterPipeline_always_saves(kind, video_id) == "save"

\* Where process_channel goes once run_pipeline has ended in the way `kind`:
\* to the save of the recorded outcome, or, nothing being recorded for a video
\* without an ID, to the next video (the `continue` of line 193 after an
\* exception).
AfterPipeline(kind, video_id) == IF Truthy(video_id) THEN "save" ELSE "loop"

\* Lines 166-193: run_pipeline returns a notes path, returns none or raises.
PipelineReturn ==
    /\ pc = "pipeline"
    /\ work < MaxWork
    /\ \E out \in OutcomesOf[VideoUrl] :
       LET video_id == VideoIdOf[VideoUrl]
           status == IF out.kind = "notes" THEN "success" ELSE "failed"
       IN  /\ result' = out.kind
           /\ notes_dir' = IF out.kind = "notes" THEN notes_dir \cup {out.file}
                           ELSE notes_dir
           /\ successful' = IF out.kind = "notes" THEN successful + 1 ELSE successful
           /\ failed' = IF out.kind = "notes" THEN failed ELSE failed + 1
           /\ state' = Record(state, video_id, VideoUrl, out.file, status, idx, Now(state))
           /\ handled' = Append(handled, Entry(status, video_id))
           /\ pc' = AfterPipeline(out.kind, video_id)
           /\ IF Truthy(video_id)
              THEN /\ save_ctx' = "video"
                   /\ idx' = idx
              ELSE /\ save_ctx' = "none"
                   /\ idx' = idx + 1
    /\ work' = work + 1
    /\ UNCHANGED <<channel, video_urls, skip_existing, resume, reset,
                   start_index, skipped, state_file, temp_file, wrote,
                   save_failed, fresh, no_notes, call, lastrun>>

\* Lines 195-205: the list is exhausted and the summary is printed.
Finish ==
    /\ pc = "loop"
    /\ idx >= Len(video_urls)
    /\ pc' = "done"
    /\ UNCHANGED <<work, channel, video_urls, skip_existing, resume, reset,
                   start_index, idx, state, successful, failed, skipped, save_ctx,
                   state_file, temp_file, notes_dir, result, handled,
                   wrote, save_failed, fresh, no_notes, call, lastrun>>

\* The run has reached the outcome of the video at position p.
Reached(p) == \E j \in 1..Len(handled) : handled[j].pos = p

OutcomeAt(p) == handled[CHOOSE j \in 1..Len(handled) : handled[j].pos = p].outcome

RunSummary(position) ==
    [position |-> position,
     prev_saved |->
        /\ Reached(position - 1)
        /\ Truthy(VideoIdOf[video_urls[position]])
        /\ ~save_failed,
     prev_failed |-> Reached(position - 1) /\ OutcomeAt(position - 1) = "failed"]

\* The process is gone: what it held in memory is lost, the files stay.
ProcessEnds ==
    /\ pc' = "idle"
    /\ video_urls' = <<>>
    /\ skip_existing' = FALSE
    /\ resume' = FALSE
    /\ reset' = FALSE
    /\ start_index' = 0
    /\ idx' = 0
    /\ state' = NoState
    /\ successful' = 0
    /\ failed' = 0
    /\ skipped' = 0
    /\ save_ctx' = "none"
    /\ result' = "none"
    /\ handled' = <<>>
    /\ wrote' = <<>>
    /\ save_failed' = FALSE
    /\ fresh' = FALSE
    /\ no_notes' = FALSE
    /\ UNCHANGED <<work, channel, state_file, temp_file, notes_dir, call>>

\* process_channel returns after its summary.
Exit ==
    /\ pc = "done"
    /\ lastrun' = RunSummary(Len(video_urls))
    /\ ProcessEnds

\* A video is in flight from the moment the loop reaches it until the save of
\* its outcome has returned.
InFlight ==
    \/ pc = "loop" /\ idx < Len(video_urls)
    \/ pc = "pipeline"
    \/ pc \in SavePcs /\ save_ctx = "video"

\* The process is terminated from outside, at any point of a run.
Kill ==
    /\ pc \notin {"idle", "done"}
    /\ lastrun' = IF InFlight THEN RunSummary(idx) ELSE NoRun
    /\ ProcessEnds

Next ==
    \/ \E sk, rs, rst \in BOOLEAN : Start(sk, rs, rst)
    \/ SaveOpen
    \/ SaveDump
    \/ SaveReplace
    \/ SaveFail
    \/ SkipVideo
    \/ InvokePipeline
    \/ PipelineReturn
    \/ Finish
    \/ Exit
    \/ Kill

Spec == Init /\ [][Next]_vars

\* ------------------------------------------- find_resume_index on its own

\* The URL lists the function is called on: any list, repeated entries
\* included, of at most MaxResumeLen entries; the URL it is given: one of the
\* URLs, the empty string or None.
RESUME_LISTS == UNION {[1..n -> URLS] : n \in 0..MaxResumeLen}

RESUME_URLS == URLS \cup {"", None}

InitResume ==
    /\ pc = "idle"
    /\ work = 0
    /\ channel = <<UrlA>>
    /\ video_urls = <<>>
    /\ skip_existing = FALSE
    /\ resume = FALSE
    /\ reset = FALSE
    /\ start_index = 0
    /\ idx = 0
    /\ state = NoState
    /\ successful = 0
    /\ failed = 0
    /\ skipped = 0
    /\ save_ctx = "none"
    /\ state_file = NoFile
    /\ temp_file = NoFile
    /\ notes_dir = {}
    /\ result = "none"
    /\ handled = <<>>
    /\ wrote = <<>>
    /\ save_failed = FALSE
    /\ fresh = FALSE
    /\ no_notes = FALSE
    /\ lastrun = NoRun
    /\ call \in {[fn |-> "find_resume_index", urls |-> l, last |-> u,
                   done |-> FALSE, out |-> 0] :
                       l \in RESUME_LISTS, u \in RESUME_URLS}

CallFindResumeIndex ==
    /\ call.fn = "find_resume_index"
    /\ ~call.done
    /\ call' = [call EXCEPT !.done = TRUE,
                            !.out = find_resume_index(call.urls, call.last)]
    /\ UNCHANGED <<pc, work, channel, video_urls, skip_existing, resume, reset,
                   start_index, idx, state, successful, failed, skipped, save_ctx,
                   state_file, temp_file, notes_dir, result, handled,
                   wrote, save_failed, fresh, no_notes, lastrun>>

NextResume == CallFindResumeIndex

SpecResume == InitResume /\ [][NextResume]_vars

\* ------------------------------------------------------------------ properties

\* The loop of the run has been entered: start_index is computed.
LoopEntered ==
    \/ pc \in {"loop", "pipeline", "done"}
    \/ pc \in SavePcs /\ save_ctx = "video"

LastHandled == handled[Len(handled)]

UrlAt(position) == video_urls[position + 1]

\* The videos of this run that the loop has left behind.
IsCompleted(e) == e.pos < idx

IsCompletedWithId(e) == e.pos < idx /\ e.has_id

Positions(entries) == [j \in 1..Len(entries) |-> entries[j].pos]

\* The state file holds a record of the entry's video with the entry's outcome.
OnDisk(e) ==
    /\ state_file.kind = "json"
    /\ VideoIdOf[UrlAt(e.pos)] \in DOMAIN state_file.doc.processed_videos
    /\ state_file.doc.processed_videos[VideoIdOf[UrlAt(e.pos)]].status = e.outcome

\* C1: at every point of a save, and so after a crash at any point, the state
\* file holds a complete document: every step leaves it as it was or puts the
\* complete new state in its place, and it is never a partly written document.
C1_AtomicSave ==
    /\ [](state_file.kind # "partial")
    /\ [][state_file' = state_file \/ state_file' = JsonFile(state)]_vars

\* The process died while the temporary file was partly written; the state
\* file still holds the complete earlier state.
C1_Witness ==
    /\ pc = "idle"
    /\ temp_file.kind = "partial"
    /\ state_file.kind = "json"
    /\ load_processing_state(state_file) = state_file.doc

\* C2 as stated: when no save fails, the state file is written exactly once
\* for the outcome of each video the loop has left behind, and it holds the
\* outcome of each of them.
C2_OneWritePerVideo ==
    (LoopEntered /\ ~save_failed) =>
        LET done == SelectSeq(handled, IsCompleted)
        IN  /\ wrote = Positions(done)
            /\ \A j \in 1..Len(done) : OnDisk(done[j])

\* C2, amended: when no save fails, the state file is written exactly once
\* for the outcome of each video with a video ID that the loop has left
\* behind, and it holds the outcome of each of them; a video without an ID
\* causes no write.
C2_OneWritePerIdentifiedVideo ==
    (LoopEntered /\ ~save_failed) =>
        LET done == SelectSeq(handled, IsCompletedWithId)
        IN  /\ wrote = Positions(done)
            /\ \A j \in 1..Len(done) : OnDisk(done[j])

\* The second video is in the pipeline, the first one's outcome is on disk.
C2_Witness ==
    /\ pc = "pipeline"
    /\ idx = 1
    /\ ~save_failed
    /\ wrote = <<0>>
    /\ OnDisk(handled[1])

\* C3 as stated: a run with resume over the list of a run that was killed
\* with the video at position k in flight starts at position k.
C3_ResumeAtKilledPosition ==
    (LoopEntered /\ resume /\ ~fresh /\ lastrun.position >= 0
        /\ lastrun.position < Len(video_urls))
    => start_index = lastrun.position

\* C3, amended: it starts at position k when the killed run had handled the
\* video at position k-1, that video has a video ID and no save of the killed
\* run failed; a run on a newly created state starts at position 0.
C3_ResumeAfterSavedOutcome ==
    /\ (LoopEntered /\ resume /\ ~fresh /\ lastrun.position >= 0
            /\ lastrun.position < Len(video_urls) /\ lastrun.prev_saved)
        => start_index = lastrun.position
    /\ (LoopEntered /\ fresh) => start_index = 0

\* A run killed with position 1 in flight is followed by a run that starts
\* at position 1.
C3_Witness ==
    /\ pc = "loop"
    /\ resume
    /\ ~fresh
    /\ lastrun.position = 1
    /\ lastrun.prev_saved
    /\ start_index = 1
    /\ idx = 1

\* C4 as stated: once a video is handled, state.last_processed_url is the URL
\* of the video handled last, whatever its outcome.
C4_LastUrlIsLastHandled ==
    handled # <<>> => state.last_processed_url = UrlAt(LastHandled.pos)

\* C4, amended: once a video with a video ID is handled, and until the next
\* video is handled, state.last_processed_url is its URL, whatever its
\* outcome.
C4_LastUrlIsLastIdentified ==
    (handled # <<>> /\ LastHandled.has_id)
    => state.last_processed_url = UrlAt(LastHandled.pos)

\* The second video of the list failed and last_processed_url names it.
C4_Witness ==
    /\ Len(handled) = 2
    /\ LastHandled.outcome = "failed"
    /\ LastHandled.has_id
    /\ state.last_processed_url = UrlAt(1)

\* C5 as stated: find_resume_index(list, list[i]) = i + 1 for every index i,
\* and the result is 0 for an absent URL and for a URL not in the list.
C5_IndexAfterUrl ==
    (call.fn = "find_resume_index" /\ call.done) =>
        /\ \A p \in 1..Len(call.urls) :
              call.urls[p] = call.last => call.out = p
        /\ (call.last = None \/ \A p \in 1..Len(call.urls) : call.urls[p] # call.last)
              => call.out = 0

\* C5, amended: find_resume_index(list, list[i]) = i + 1 when i is the first
\* index at which the URL list[i] occurs in the list; the result is 0 for an
\* absent URL and for a URL not in the list.
C5_IndexAfterFirstOccurrence ==
    (call.fn = "find_resume_index" /\ call.done) =>
        /\ \A p \in 1..Len(call.urls) :
              (/\ call.urls[p] = call.last
               /\ \A q \in 1..(p - 1) : call.urls[q] # call.last)
              => call.out = p
        /\ (call.last = None \/ \A p \in 1..Len(call.urls) : call.urls[p] # call.last)
              => call.out = 0

\* The URL is the last of three different ones: the result is the length.
C5_Witness ==
    /\ call.fn = "find_resume_index"
    /\ call.done
    /\ call.urls = <<UrlA, UrlB, UrlN>>
    /\ call.last = UrlN
    /\ call.out = 3

\* The state holds a record of the entry's video with the given status.
InState(e, status) ==
    /\ VideoIdOf[UrlAt(e.pos)] \in DOMAIN state.processed_videos
    /\ state.processed_videos[VideoIdOf[UrlAt(e.pos)]].status = status

IsFailed(e) == e.outcome = "failed"

\* The loop handles every video from start_index on and then ends.
BatchNotAborted ==
    pc = "done" =>
        /\ idx = Len(video_urls)
        /\ Len(handled) = Len(video_urls) - start_index

\* C6 as stated: when run_pipeline raises, the video is recorded in the state
\* as failed and counted as failed, and the batch goes on: the run ends only
\* when every remaining video is handled.
C6_ExceptionRecordedFailed ==
    /\ result = "raise" =>
            /\ LastHandled.outcome = "failed"
            /\ failed = Len(SelectSeq(handled, IsFailed))
            /\ InState(LastHandled, "failed")
    /\ BatchNotAborted

\* C6, amended: when run_pipeline raises, the video is counted as failed and,
\* when it has a video ID, recorded in the state as failed, and the batch
\* goes on: the run ends only when every remaining video is handled.
C6_ExceptionCountedFailed ==
    /\ result = "raise" =>
            /\ LastHandled.outcome = "failed"
            /\ failed = Len(SelectSeq(handled, IsFailed))
            /\ LastHandled.has_id => InState(LastHandled, "failed")
    /\ BatchNotAborted

\* run_pipeline raised on the first video, it is recorded as failed, and the
\* second video is in the pipeline.
C6_Witness ==
    /\ pc = "pipeline"
    /\ idx = 1
    /\ result = "raise"
    /\ LastHandled.pos = 0
    /\ InState(LastHandled, "failed")

\* C7: the videos handled by a run are the positions start_index,
\* start_index + 1, ... in this order, each once and with one of the outcomes
\* skipped, success, failed; when the run ends they reach to the last
\* position of the list.
C7_HandledInOrder ==
    /\ \A j \in 1..Len(handled) :
          /\ handled[j].pos = start_index + j - 1
          /\ handled[j].pos < Len(video_urls)
          /\ handled[j].outcome \in {"skipped", "success", "failed"}
    /\ LoopEntered => successful + failed + skipped = Len(handled)
    /\ pc = "done" => Len(handled) = Len(video_urls) - start_index

\* A run that started at position 0 has ended with both videos handled.
C7_Witness ==
    /\ pc = "done"
    /\ start_index = 0
    /\ Len(handled) = 2
    /\ handled[2].pos = 1

\* C8: with skip-existing, run_pipeline is never called for a video whose ID
\* has a state record naming a notes file that exists; such a video is
\* recorded as skipped, wherever the loop started.
C8_TrackedNeverProcessed ==
    /\ (pc = "pipeline" /\ skip_existing)
        => ~(/\ Truthy(VideoIdOf[VideoUrl])
             /\ Tracked(VideoIdOf[VideoUrl], state, notes_dir))
    /\ \A j \in 1..Len(handled) :
          (skip_existing /\ handled[j].tracked)
          => /\ handled[j].outcome = "skipped"
             /\ InState(handled[j], "skipped")

\* The last URL of the state is not in the list, so the run with resume
\* started at position 0, and it has skipped the tracked video there.
C8_Witness ==
    /\ pc = "save"
    /\ skip_existing
    /\ resume
    /\ ~fresh
    /\ start_index = 0
    /\ state_file.kind = "json"
    /\ Truthy(state_file.doc.last_processed_url)
    /\ \A p \in 1..Len(video_urls) : video_urls[p] # state_file.doc.last_processed_url
    /\ Len(handled) = 1
    /\ handled[1].tracked
    /\ handled[1].outcome = "skipped"
    /\ InState(handled[1], "skipped")

\* A run over videos that all have a video ID, begun on a newly created state
\* and an empty notes directory, has ended.
FreshRunEnded ==
    /\ pc = "done"
    /\ fresh
    /\ no_notes
    /\ \A p \in 1..Len(video_urls) : Truthy(VideoIdOf[video_urls[p]])

\* The final state holds one record per handled video, success where the
\* pipeline produced notes and failed otherwise; the totals are the numbers
\* of successes and of failures; last_processed_url is the last URL.
RunRecorded ==
    /\ Len(handled) = Len(video_urls)
    /\ DOMAIN state.processed_videos =
          {VideoIdOf[video_urls[p]] : p \in 1..Len(video_urls)}
    /\ \A j \in 1..Len(handled) :
          InState(handled[j], IF handled[j].outcome = "success"
                              THEN "success" ELSE "failed")
    /\ state.total_processed = successful
    /\ state.total_failed = failed
    /\ successful + failed = Len(video_urls)
    /\ state.last_processed_url = video_urls[Len(video_urls)]

\* C9 as stated: a run from a fresh state with no notes on disk, over URLs
\* with distinct video IDs, ends with one record per video (success or
\* failed), the matching totals and the last URL as last_processed_url.
C9_FreshRunRecordsAll == FreshRunEnded => RunRecorded

\* C9, amended: it does so when it has skipped no video (with skip-existing a
\* video is skipped when its ID occurs in the name of a notes file written
\* earlier in the run).
C9_FreshRunWithoutSkips == (FreshRunEnded /\ skipped = 0) => RunRecorded

\* A fresh run over two videos has ended with one success and one failure.
C9_Witness ==
    /\ FreshRunEnded
    /\ Len(video_urls) = 2
    /\ handled[1].outcome = "success"
    /\ handled[2].outcome = "failed"
    /\ state.total_processed = 1
    /\ state.total_failed = 1

\* C10 as stated: a run with resume over the list of a run that ended with
\* its last video failed starts at the length of the list and calls
\* run_pipeline for no video.
C10_ResumeAfterCompleteRun ==
    (LoopEntered /\ resume /\ ~fresh /\ lastrun.position = Len(video_urls)
        /\ lastrun.prev_failed)
    => /\ start_index = Len(video_urls)
       /\ handled = <<>>
       /\ pc # "pipeline"

\* C10, amended: it does so when the last video has a video ID and no save
\* of the ended run failed.
C10_ResumeAfterSavedCompleteRun ==
    (LoopEntered /\ resume /\ ~fresh /\ lastrun.position = Len(video_urls)
        /\ lastrun.prev_failed /\ lastrun.prev_saved)
    => /\ start_index = Len(video_urls)
       /\ handled = <<>>
       /\ pc # "pipeline"

\* The run after a complete run whose last video failed has ended without
\* handling a video.
C10_Witness ==
    /\ pc = "done"
    /\ resume
    /\ ~fresh
    /\ lastrun.position = Len(video_urls)
    /\ lastrun.prev_failed
    /\ lastrun.prev_saved
    /\ start_index = Len(video_urls)
    /\ handled = <<>>

\* The state holds a record with status failed for the video at the position.
FailedRecordAt(st, position) ==
    /\ VideoIdOf[UrlAt(position)] \in DOMAIN st.processed_videos
    /\ st.processed_videos[VideoIdOf[UrlAt(position)]].status = "failed"

\* No file of the notes directory has the ID of the video in its name.
NoNotesNamed(position) ==
    \A f \in notes_dir : ~GlobMatches[f, VideoIdOf[UrlAt(position)]]

\* A run with resume and skip-existing on a loaded state is in its loop and
\* no save of it has failed: but for the update of a video whose save is
\* under way, the state file holds what the state held.
RerunInLoop == LoopEntered /\ ~fresh /\ resume /\ skip_existing /\ ~save_failed

\* C11 as stated: in a re-run with resume and skip-existing, every video with
\* a failed record is run through the pipeline again (none lies before the
\* position the run starts at), and a video with a failed record is never
\* found processed and skipped.
C11_FailedAreRetried ==
    RerunInLoop =>
        /\ \A p \in 0..(start_index - 1) :
              Truthy(VideoIdOf[UrlAt(p)]) => ~FailedRecordAt(state_file.doc, p)
        /\ (pc = "save" /\ result = "skipped")
              => ~FailedRecordAt(state_file.doc, idx)

\* C11, amended: in a re-run with resume and skip-existing, a video with a
\* failed record that the loop comes to (it lies at or after the start index)
\* is run through the pipeline again unless a file of the notes directory has
\* its ID in its name: a failed record alone never makes it count as
\* processed; the pipeline is not run for a video tracked with its notes.
C11_FailedInRangeAreRetried ==
    RerunInLoop =>
        /\ \A p \in idx..(Len(video_urls) - 1) :
              (Truthy(VideoIdOf[UrlAt(p)]) /\ FailedRecordAt(state, p)
                  /\ NoNotesNamed(p))
              => is_video_processed(VideoIdOf[UrlAt(p)], state, notes_dir)
                    = {<<FALSE, None>>}
        /\ (pc = "save" /\ result = "skipped" /\ FailedRecordAt(state_file.doc, idx))
              => ~NoNotesNamed(idx)
        /\ pc = "pipeline" =>
              ~(/\ Truthy(VideoIdOf[VideoUrl])
                /\ Tracked(VideoIdOf[VideoUrl], state, notes_dir))

\* The re-run has called run_pipeline for a video whose record says failed.
C11_Witness ==
    /\ RerunInLoop
    /\ pc = "pipeline"
    /\ Truthy(VideoIdOf[VideoUrl])
    /\ FailedRecordAt(state, idx)

\* The totals of a state document.
Totals(doc) == <<doc.total_processed, doc.total_skipped, doc.total_failed>>

\* This step puts a document into the state file in which one of the totals
\* is smaller than in the document that was there.
TotalsDecrease ==
    /\ state_file.kind = "json"
    /\ state_file'.kind = "json"
    /\ \E k \in 1..3 : Totals(state_file'.doc)[k] < Totals(state_file.doc)[k]

\* C12 as stated: over any sequence of runs, runs that find the state file
\* unreadable included, no total in the state file ever decreases, except in
\* a run with reset.
C12_TotalsMonotone == [][TotalsDecrease => reset]_vars

\* C12, amended: no total in the state file ever decreases, except in a run
\* that began on a newly created state: a run with reset, or a run that
\* found the state file unreadable.
C12_TotalsMonotoneUnlessFresh == [][TotalsDecrease => fresh]_vars

\* A later run on the loaded state has added to the totals of the first.
C12_Witness ==
    /\ pc = "loop"
    /\ ~fresh
    /\ state_file.kind = "json"
    /\ state_file.doc.total_processed = 1
    /\ state_file.doc.total_skipped = 1
    /\ wrote # <<>>

\* ------------------------- update_processing_state, is_video_processed alone

\* Nothing runs: the variables of process_channel as Init has them.
DriverAtRest ==
    /\ pc = "idle"
    /\ work = 0
    /\ channel = <<UrlA>>
    /\ video_urls = <<>>
    /\ skip_existing = FALSE
    /\ resume = FALSE
    /\ reset = FALSE
    /\ start_index = 0
    /\ idx = 0
    /\ state = NoState
    /\ successful = 0
    /\ failed = 0
    /\ skipped = 0
    /\ save_ctx = "none"
    /\ state_file = NoFile
    /\ temp_file = NoFile
    /\ notes_dir = {}
    /\ result = "none"
    /\ handled = <<>>
    /\ wrote = <<>>
    /\ save_failed = FALSE
    /\ fresh = FALSE
    /\ no_notes = FALSE
    /\ lastrun = NoRun

DriverUnchanged ==
    UNCHANGED <<pc, work, channel, video_urls, skip_existing, resume, reset,
                start_index, idx, state, successful, failed, skipped, save_ctx,
                state_file, temp_file, notes_dir, result, handled, wrote,
                save_failed, fresh, no_notes, lastrun>>

VIDEO_IDS == {VideoIdOf[u] : u \in URLS} \ {None}

STATUSES == {"success", "failed", "skipped"}

\* The records processed_videos can hold for an ID.
RecordsOf(v) ==
    {[url |-> u, video_id |-> v, notes_file |-> f, processed_at |-> 1,
      status |-> IF f = None THEN "failed" ELSE "success"] :
        u \in {w \in URLS : VideoIdOf[w] = v}, f \in NOTES_FILES \cup {None}}

\* processed_videos: records for some of the IDs.
RECORD_MAPS ==
    UNION {{pv \in [ids -> UNION {RecordsOf(v) : v \in ids}] :
                \A v \in ids : pv[v].video_id = v} : ids \in SUBSET VIDEO_IDS}

\* The states update_processing_state is called on.
UPDATE_STATES ==
    {[create_initial_state(CHANNEL_URL, CHANNEL_NAME) EXCEPT
        !.processed_videos = pv, !.last_updated = 1,
        !.total_processed = tp, !.total_skipped = ts, !.total_failed = tf] :
        pv \in {m \in RECORD_MAPS : \A v \in DOMAIN m : m[v].notes_file \in {None, "c:T.md"}},
        tp \in 0..MaxTotal, ts \in 0..MaxTotal, tf \in 0..MaxTotal}

InitUpdate ==
    /\ DriverAtRest
    /\ call \in {[fn |-> "update_processing_state", st |-> st, video_id |-> v,
                   video_url |-> u, notes_file |-> f, status |-> x,
                   done |-> FALSE, out |-> st] :
                       st \in UPDATE_STATES, v \in VIDEO_IDS, u \in {UrlA, UrlB},
                       f \in {None, "c:1.md"}, x \in STATUSES}

CallUpdateProcessingState ==
    /\ call.fn = "update_processing_state"
    /\ ~call.done
    /\ call' = [call EXCEPT
                    !.done = TRUE,
                    !.out = update_processing_state(call.st, call.video_id,
                                call.video_url, call.notes_file, call.status,
                                Now(call.st))]
    /\ DriverUnchanged

NextUpdate == CallUpdateProcessingState

SpecUpdate == InitUpdate /\ [][NextUpdate]_vars

\* The states is_video_processed is called on: none, or one with records.
InitProcessed ==
    /\ DriverAtRest
    /\ call \in {[fn |-> "is_video_processed", video_id |-> v, st |-> st,
                   notes |-> d, done |-> FALSE, out |-> <<FALSE, None>>] :
                       v \in VIDEO_IDS,
                       st \in {NoState} \cup
                              {[create_initial_state(CHANNEL_URL, CHANNEL_NAME)
                                  EXCEPT !.processed_videos = pv] : pv \in RECORD_MAPS},
                       d \in SUBSET NOTES_FILES}

\* The call returns one of its possible results.
CallIsVideoProcessed ==
    /\ call.fn = "is_video_processed"
    /\ ~call.done
    /\ \E r \in is_video_processed(call.video_id, call.st, call.notes) :
          call' = [call EXCEPT !.done = TRUE, !.out = r]
    /\ DriverUnchanged

NextProcessed == CallIsVideoProcessed

SpecProcessed == InitProcessed /\ [][NextProcessed]_vars

\* ------------------------------------------------------ run_pipeline alone

\* The positions of run_pipeline, in the order of the code: the mkdir calls,
\* the four collaborators with the backend test before the third, the title
\* and the writing of the notes inside the try of the fourth, and the clean up.
STAGES ==
    <<"setup", "download", "extract", "backend", "transcribe", "summarize",
      "title", "write_notes", "cleanup", "returned">>

StageIndex(stage) == CHOOSE i \in 1..Len(STAGES) : STAGES[i] = stage

Following(stage) == STAGES[StageIndex(stage) + 1]

\* Step 6 goes through these in this order.
files_to_delete == <<"video", "audio", "transcript">>

\* The collaborator of each of the four stages.
CollaboratorOf ==
    [download |-> "download_video", extract |-> "extract_audio",
     transcribe |-> "transcribe_audio", summarize |-> "summarize_transcript"]

OnError_extract_continues(stage) ==
    IF stage = "setup" THEN "propagate"
    ELSE IF stage \in {"extract", "title", "unlink"} THEN "continue"
    ELSE "return_none"

OnError_summarize_continues(stage) ==
    IF stage = "setup" THEN "propagate"
    ELSE IF stage \in {"summarize", "title", "unlink"} THEN "continue"
    ELSE "return_none"

OnError_title_returns(stage) ==
    IF stage = "setup" THEN "propagate"
    ELSE IF stage = "unlink" THEN "continue"
    ELSE "return_none"

OnError_unlink_returns(stage) ==
    IF stage = "setup" THEN "propagate"
    ELSE IF stage = "title" THEN "continue"
    ELSE "return_none"

\* What becomes of an exception of a position: the mkdir calls (lines
\* 81-84) are in no try, the title and each unlink have a try of their own
\* that goes on, and every other try prints and returns None.
OnError(stage) ==
    IF stage = "setup" THEN "propagate"
    ELSE IF stage \in {"title", "unlink"} THEN "continue"
    ELSE "return_none"

PipelineRaise == [kind |-> "raise", file |-> None]

PipelineNone == [kind |-> "none", file |-> None]

\* The call after an exception at the stage: went is the call had the stage
\* gone well enough to go on.
Raised(c, stage, went) ==
    LET e == [c EXCEPT !.erred = @ \cup {stage}]
    IN  CASE OnError(stage) = "propagate" ->
                [e EXCEPT !.at = "returned", !.out = PipelineRaise]
          [] OnError(stage) = "return_none" ->
                [e EXCEPT !.at = "returned", !.out = PipelineNone]
          [] OTHER -> [went EXCEPT !.erred = @ \cup {stage}]

Invoked(c, stage) == [c EXCEPT !.calls = Append(@, CollaboratorOf[stage])]

At(stage) == call.fn = "run_pipeline" /\ call.at = stage

\* A call on a URL of the model; intermediate files of an earlier call on
\* the same video may lie in the channel's directories.
InitPipeline ==
    /\ DriverAtRest
    /\ call \in {[fn |-> "run_pipeline", url |-> u, at |-> "setup",
                   files |-> d, calls |-> <<>>, erred |-> {}, backend |-> None,
                   notes_filename |-> None, k |-> 1, tried |-> {},
                   out |-> PipelineNone] :
                       u \in URLS, d \in SUBSET {"video", "audio", "transcript"}}

\* Lines 81-84.
MakeDirs ==
    /\ At("setup")
    /\ \E ok \in BOOLEAN :
          call' = IF ok THEN [call EXCEPT !.at = Following("setup")]
                  ELSE Raised(call, "setup", call)
    /\ DriverUnchanged

\* Lines 88-95: download_video and the stat of the file it names.
Download ==
    /\ At("download")
    /\ \E ok \in BOOLEAN :
          LET c == Invoked(call, "download")
              went == [c EXCEPT !.at = Following("download")]
          IN  call' = IF ok THEN [went EXCEPT !.files = @ \cup {"video"}]
                      ELSE Raised(c, "download", went)
    /\ DriverUnchanged

ExtractAudio_removes_video ==
    /\ At("extract")
    /\ \E ok \in BOOLEAN :
          LET c == Invoked(call, "extract")
              went == [c EXCEPT !.at = Following("extract")]
          IN  call' = IF ok THEN [went EXCEPT !.files = @ \cup {"audio"}]
                      ELSE Raised([c EXCEPT !.files = @ \ {"video"}], "extract", went)
    /\ DriverUnchanged

\* Lines 99-106: extract_audio and the stat of the file it names.
ExtractAudio ==
    /\ At("extract")
    /\ \E ok \in BOOLEAN :
          LET c == Invoked(call, "extract")
              went == [c EXCEPT !.at = Following("extract")]
          IN  call' = IF ok THEN [went EXCEPT !.files = @ \cup {"audio"}]
                      ELSE Raised(c, "extract", went)
    /\ DriverUnchanged

ChooseBackend_goes_on ==
    /\ At("backend")
    /\ \E b \in {"local", "api", None} :
          call' = [call EXCEPT !.backend = b, !.at = Following("backend")]
    /\ DriverUnchanged

\* Lines 113-124: local Whisper, else the API, else return None.
ChooseBackend ==
    /\ At("backend")
    /\ \E b \in {"local", "api", None} :
          call' = IF b # None
                  THEN [call EXCEPT !.backend = b, !.at = Following("backend")]
                  ELSE [call EXCEPT !.at = "returned", !.out = PipelineNone]
    /\ DriverUnchanged

\* Lines 126-143: transcribe_audio, then the transcript is written.
Transcribe ==
    /\ At("transcribe")
    /\ \E transcribed \in BOOLEAN, saved \in BOOLEAN :
          LET c == Invoked(call, "transcribe")
              went == [c EXCEPT !.at = Following("transcribe")]
          IN  call' = IF transcribed /\ saved
                      THEN [went EXCEPT !.files = @ \cup {"transcript"}]
                      ELSE Raised(c, "transcribe", went)
    /\ DriverUnchanged

\* Line 148.
Summarize ==
    /\ At("summarize")
    /\ \E ok \in BOOLEAN :
          LET c == Invoked(call, "summarize")
              went == [c EXCEPT !.at = Following("summarize")]
          IN  call' = IF ok THEN went ELSE Raised(c, "summarize", went)
    /\ DriverUnchanged

\* Lines 153-189: the file name from the title, or from the video_id when
\* the title could not be made.
GenerateTitle ==
    /\ At("title")
    /\ \E ok \in BOOLEAN, title \in TITLES :
          LET named == [call EXCEPT !.at = Following("title"),
                          !.notes_filename = NotesFilename(CHANNEL_NAME, title)]
              by_id == [call EXCEPT !.at = Following("title"),
                          !.notes_filename =
                              NotesFilename(CHANNEL_NAME, pipeline_video_id(call.url))]
          IN  call' = IF ok THEN named ELSE Raised(call, "title", by_id)
    /\ DriverUnchanged

\* Lines 192-194.
WriteNotes ==
    /\ At("write_notes")
    /\ \E ok \in BOOLEAN :
          LET went == [call EXCEPT !.at = Following("write_notes")]
          IN  call' = IF ok THEN [went EXCEPT !.files = @ \cup {"notes"}]
                      ELSE Raised(call, "write_notes", went)
    /\ DriverUnchanged

\* Lines 213-222, once for each of files_to_delete: a file that exists is
\* unlinked, and stays when the unlink raises.
CleanupFile ==
    /\ At("cleanup")
    /\ call.k <= Len(files_to_delete)
    /\ \E ok \in BOOLEAN :
          LET f == files_to_delete[call.k]
              next == [call EXCEPT !.k = @ + 1]
              tried == [next EXCEPT !.tried = @ \cup {f}]
          IN  call' = IF f \notin call.files THEN next
                      ELSE IF ok THEN [tried EXCEPT !.files = @ \ {f}]
                      ELSE Raised(tried, "unlink", tried)
    /\ DriverUnchanged

\* Line 229.
ReturnNotesPath ==
    /\ At("cleanup")
    /\ call.k > Len(files_to_delete)
    /\ call' = [call EXCEPT !.at = "returned",
                   !.out = [kind |-> "notes", file |-> call.notes_filename]]
    /\ DriverUnchanged

NextPipeline ==
    \/ MakeDirs
    \/ Download
    \/ ExtractAudio
    \/ ChooseBackend
    \/ Transcribe
    \/ Summarize
    \/ GenerateTitle
    \/ WriteNotes
    \/ CleanupFile
    \/ ReturnNotesPath

SpecPipeline == InitPipeline /\ [][NextPipeline]_vars

\* --------------------------------------------- load_processing_state alone

\* A state file whose bytes are not UTF-8: the read inside json.load raises
\* UnicodeDecodeError, a ValueError that is neither a JSONDecodeError nor an
\* IOError, so the except clause of line 32 does not catch it.
UndecodableFile == [kind |-> "undecodable"]

LoadRaises(file) == file.kind = "undecodable"

LOAD_FILES ==
    {NoFile, PartialFile, UnreadableFile, UndecodableFile}
        \cup {JsonFile(st) : st \in UPDATE_STATES}

InitLoad ==
    /\ DriverAtRest
    /\ call \in {[fn |-> "load_processing_state", file |-> f, done |-> FALSE,
                   raised |-> FALSE, out |-> NoState] : f \in LOAD_FILES}

CallLoadProcessingState ==
    /\ call.fn = "load_processing_state"
    /\ ~call.done
    /\ call' = IF LoadRaises(call.file)
               THEN [call EXCEPT !.done = TRUE, !.raised = TRUE]
               ELSE [call EXCEPT !.done = TRUE,
                                 !.out = load_processing_state(call.file)]
    /\ DriverUnchanged

NextLoad == CallLoadProcessingState

SpecLoad == InitLoad /\ [][NextLoad]_vars

\* --------------------------------------------- save_processing_state alone

\* What can go wrong at a step of save_processing_state: an IOError at any of
\* mkdir, open, json.dump and replace, and at json.dump a TypeError or a
\* ValueError (a value json cannot serialize, a string utf-8 cannot encode).
SaveErrors(step) ==
    IF step = "dump" THEN {"none", "IOError", "TypeError"} ELSE {"none", "IOError"}

\* Line 62: except IOError.
SaveCatches(err) == err = "IOError"

\* The call after the step raised err: lines 62-66 remove the temporary file
\* and return False; any other exception leaves the function with the files
\* as they are.
SaveRaised(c, err) ==
    IF SaveCatches(err)
    THEN [c EXCEPT !.at = "returned", !.out = "False", !.temp_file = NoFile]
    ELSE [c EXCEPT !.at = "returned", !.out = "raised"]

\* A call with a state to save, on a directory that holds a state file
\* saved before or none, and the temporary file of a killed run or none.
InitSave ==
    /\ DriverAtRest
    /\ call \in {[fn |-> "save_processing_state", st |-> st, at |-> "mkdir",
                   before |-> f, state_file |-> f, temp_file |-> t,
                   out |-> "pending"] :
                       st \in UPDATE_STATES,
                       f \in {NoFile,
                               JsonFile(create_initial_state(CHANNEL_URL, CHANNEL_NAME))},
                       t \in {NoFile, PartialFile}}

\* Line 52.
SaveMkdir ==
    /\ call.fn = "save_processing_state" /\ call.at = "mkdir"
    /\ \E err \in SaveErrors("mkdir") :
          call' = IF err = "none" THEN [call EXCEPT !.at = "open"]
                  ELSE SaveRaised(call, err)
    /\ DriverUnchanged

\* Line 55.
SaveOpenTemp ==
    /\ call.fn = "save_processing_state" /\ call.at = "open"
    /\ \E err \in SaveErrors("open") :
          call' = IF err = "none"
                  THEN [call EXCEPT !.at = "dump",
                          !.temp_file = OpenTemp(call.temp_file, call.state_file).temp,
                          !.state_file = OpenTemp(call.temp_file, call.state_file).final]
                  ELSE SaveRaised(call, err)
    /\ DriverUnchanged

\* Line 56.
SaveWrite ==
    /\ call.fn = "save_processing_state" /\ call.at = "dump"
    /\ \E err \in SaveErrors("dump") :
          call' = IF err = "none"
                  THEN [call EXCEPT !.at = "replace", !.temp_file = JsonFile(call.st)]
                  ELSE SaveRaised(call, err)
    /\ DriverUnchanged

\* Lines 59-60.
SaveRename ==
    /\ call.fn = "save_processing_state" /\ call.at = "replace"
    /\ \E err \in SaveErrors("replace") :
          call' = IF err = "none"
                  THEN [call EXCEPT !.at = "returned", !.out = "True",
                          !.state_file = Replace(call.temp_file, call.state_file).final,
                          !.temp_file = Replace(call.temp_file, call.state_file).temp]
                  ELSE SaveRaised(call, err)
    /\ DriverUnchanged

NextSave ==
    \/ SaveMkdir
    \/ SaveOpenTemp
    \/ SaveWrite
    \/ SaveRename

SpecSave == InitSave /\ [][NextSave]_vars

\* ------------------------------------- the channel directory of a channel URL

UPPER == <<"A", "B", "C", "D", "E", "F", "G", "H", "I", "J", "K", "L", "M", "N", "O", "P", "Q", "R", "S", "T", "U", "V", "W", "X", "Y", "Z">>

LOWER == <<"a", "b", "c", "d", "e", "f", "g", "h", "i", "j", "k", "l", "m", "n", "o", "p", "q", "r", "s", "t", "u", "v", "w", "x", "y", "z">>

\* str.lower() on a sequence of characters.
Lower(cs) ==
    [i \in 1..Len(cs) |->
        IF \E j \in 1..Len(UPPER) : UPPER[j] = cs[i]
        THEN LOWER[CHOOSE j \in 1..Len(UPPER) : UPPER[j] = cs[i]]
        ELSE cs[i]]

\* The class [^/?] of the two channel name patterns.
NameChars == Digits \cup Letters \cup {".", "@", ":", "=", "-", "_", " "}

\* The characters re.sub(r'[^\w\s-]', '', ...) keeps.
KeptChars == Digits \cup Letters \cup {"_", " ", "-"}

S_tiktok == <<"t", "i", "k", "t", "o", "k", ".", "c", "o", "m">>
S_youtube == <<"y", "o", "u", "t", "u", "b", "e", ".", "c", "o", "m">>
S_youtu_be == <<"y", "o", "u", "t", "u", ".", "b", "e">>

HasSub(cs, sub) == \E k \in 0..Len(cs) : MatchAt(cs, k, sub)

is_tiktok_url(cs) == HasSub(Lower(cs), S_tiktok)

is_youtube_url(cs) == HasSub(Lower(cs), S_youtube) \/ HasSub(Lower(cs), S_youtu_be)

\* re.search(prefix + r'([^/?]+)', url).group(1) for the leftmost match over
\* the prefixes, or the empty sequence where Python has None.
GroupAfter(cs, prefixes) ==
    LET ks == {k \in 0..Len(cs) :
                  \E pre \in prefixes :
                      /\ MatchAt(cs, k, pre)
                      /\ RunOf(cs, k + Len(pre) + 1, NameChars) # <<>>}
        k0 == Min(ks)
        pre0 == CHOOSE pre \in prefixes :
                    /\ MatchAt(cs, k0, pre)
                    /\ RunOf(cs, k0 + Len(pre) + 1, NameChars) # <<>>
    IN  IF ks = {} THEN <<>> ELSE RunOf(cs, k0 + Len(pre0) + 1, NameChars)

\* Lines 78-92 of process_channel.
channel_name(cs) ==
    LET at == GroupAfter(cs, {<<"@">>})
    IN  IF is_tiktok_url(cs) THEN at
        ELSE IF is_youtube_url(cs)
             THEN IF at # <<>> THEN at
                  ELSE GroupAfter(cs, {<<"/", "c", "h", "a", "n", "n", "e", "l", "/">>,
                                       <<"/", "c", "/">>,
                                       <<"/", "u", "s", "e", "r", "/">>})
             ELSE <<>>

\* str.strip() for spaces.
RECURSIVE Strip(_)
Strip(cs) ==
    IF cs = <<>> THEN cs
    ELSE IF Head(cs) = " " THEN Strip(Tail(cs))
    ELSE IF cs[Len(cs)] = " " THEN Strip(SubSeq(cs, 1, Len(cs) - 1))
    ELSE cs

\* Lines 95-98: re.sub(r'[^\w\s-]', '', channel_name).strip()
\* .replace(' ', '_').lower(), or "unknown_channel" without a name.
channel_name_clean(cs) ==
    LET name == channel_name(cs)
        Kept(ch) == ch \in KeptChars
        stripped == Strip(SelectSeq(name, Kept))
    IN  IF name = <<>> THEN <<"u", "n", "k", "n", "o", "w", "n", "_", "c", "h", "a", "n", "n", "e", "l">>
        ELSE Lower([i \in 1..Len(stripped) |->
                       IF stripped[i] = " " THEN "_" ELSE stripped[i]])

\* The channel URLs of the model: TikTok and YouTube channels by handle, two
\* handles that differ in case and two that differ in a dot, YouTube
\* channels by path, and URLs without a name.
CHANNEL_URLS ==
    {h \o <<"/">> \o path :
        h \in {<<"h", "t", "t", "p", ":", "/", "/", "t", "i", "k", "t", "o", "k", ".", "c", "o", "m">>,
               <<"h", "t", "t", "p", ":", "/", "/", "y", "o", "u", "t", "u", "b", "e", ".", "c", "o", "m">>},
        path \in {<<"@", "c">>, <<"@", "C">>, <<"@", "c", ".", "d">>, <<"@", "c", "d">>,
                  <<"c", "h", "a", "n", "n", "e", "l", "/", "U", "c">>,
                  <<"c", "/", "c", "d">>, <<"x">>}}

\* Two runs of process_channel under the same output directory, each on a
\* channel URL, at the point where each has its channel_dir (line 101), in
\* which it keeps its state file and its notes directory.
InitDirs ==
    /\ DriverAtRest
    /\ call \in {[fn |-> "channel_dir", url1 |-> u1, url2 |-> u2,
                   done |-> FALSE, dir1 |-> <<>>, dir2 |-> <<>>] :
                       u1 \in CHANNEL_URLS, u2 \in CHANNEL_URLS}

CallChannelDir ==
    /\ call.fn = "channel_dir"
    /\ ~call.done
    /\ call' = [call EXCEPT !.done = TRUE,
                            !.dir1 = channel_name_clean(call.url1),
                            !.dir2 = channel_name_clean(call.url2)]
    /\ DriverUnchanged

NextDirs == CallChannelDir

SpecDirs == InitDirs /\ [][NextDirs]_vars

\* ------------------------------------------- process_channel.py as a command

\* A command line of 0 to 3 arguments, a third argument that is or is not an
\* integer, and what the run will meet: the outcome of the discovery, of the
\* set up between discovery and loop (mkdir of the notes directory, load of
\* the state), and of each video. error is the top-level error the run has
\* met, exit_code the code the process has ended with (-1: still running).
InitMain ==
    /\ DriverAtRest
    /\ call \in {[fn |-> "main", argc |-> n, max_videos_ok |-> mv,
                   discovery |-> dsc, setup_ok |-> su, outcomes |-> o,
                   at |-> "args", i |-> 0, failed |-> 0, error |-> "none",
                   exit_code |-> -1] :
                       n \in 1..4, mv \in BOOLEAN,
                       dsc \in {"raise", "empty", "found"}, su \in BOOLEAN,
                       o \in UNION {[1..k -> STATUSES] : k \in 0..MaxLen}}

\* Lines 208-224: the usage exit, and int(sys.argv[3]), which raises
\* ValueError out of the script when the argument is not an integer.
ParseArgs ==
    /\ call.fn = "main" /\ call.at = "args"
    /\ call' = IF call.argc < 2
               THEN [call EXCEPT !.at = "exited", !.error = "usage", !.exit_code = 1]
               ELSE IF call.argc > 3 /\ ~call.max_videos_ok
               THEN [call EXCEPT !.at = "exited", !.error = "max_videos",
                                 !.exit_code = 1]
               ELSE [call EXCEPT !.at = "discover"]
    /\ DriverUnchanged

\* Lines 59-76: process_channel returns when scrape_videos raises and when
\* it finds no video; the script then ends, with exit code 0.
Discover ==
    /\ call.fn = "main" /\ call.at = "discover"
    /\ call' = CASE call.discovery = "raise" ->
                     [call EXCEPT !.at = "exited", !.error = "discovery",
                                  !.exit_code = 0]
                 [] call.discovery = "empty" ->
                     [call EXCEPT !.at = "exited", !.exit_code = 0]
                 [] OTHER -> [call EXCEPT !.at = "setup"]
    /\ DriverUnchanged

\* Lines 101-130, in no try: an exception here ends the script with a
\* traceback and exit code 1.
SetUp ==
    /\ call.fn = "main" /\ call.at = "setup"
    /\ call' = IF call.setup_ok THEN [call EXCEPT !.at = "loop"]
               ELSE [call EXCEPT !.at = "exited", !.error = "setup", !.exit_code = 1]
    /\ DriverUnchanged

\* Lines 143-193: one video is handled; a failure is counted.
HandleVideo ==
    /\ call.fn = "main" /\ call.at = "loop"
    /\ call.i < Len(call.outcomes)
    /\ call' = [call EXCEPT !.i = @ + 1,
                            !.failed = IF call.outcomes[call.i + 1] = "failed"
                                       THEN @ + 1 ELSE @]
    /\ DriverUnchanged

\* Lines 195-205 and 224: the summary is printed, process_channel returns
\* and the script ends.
ReturnFromChannel ==
    /\ call.fn = "main" /\ call.at = "loop"
    /\ call.i = Len(call.outcomes)
    /\ call' = [call EXCEPT !.at = "exited", !.exit_code = 0]
    /\ DriverUnchanged

NextMain ==
    \/ ParseArgs
    \/ Discover
    \/ SetUp
    \/ HandleVideo
    \/ ReturnFromChannel

SpecMain == InitMain /\ [][NextMain]_vars

\* ------------------------------------------------- runs left to themselves

\* The steps of the program itself: no run is terminated from outside.
NextRun ==
    \/ \E sk, rs, rst \in BOOLEAN : Start(sk, rs, rst)
    \/ SaveOpen
    \/ SaveDump
    \/ SaveReplace
    \/ SaveFail
    \/ SkipVideo
    \/ InvokePipeline
    \/ PipelineReturn
    \/ Finish
    \/ Exit

\* The state after construction, with one step less left to the runs than in
\* Init: a first run over any list and what can follow it.
InitRun ==
    /\ pc = "idle"
    /\ work = 1
    /\ channel \in LISTS
    /\ video_urls = <<>>
    /\ skip_existing = FALSE
    /\ resume = FALSE
    /\ reset = FALSE
    /\ start_index = 0
    /\ idx = 0
    /\ state = NoState
    /\ successful = 0
    /\ failed = 0
    /\ skipped = 0
    /\ save_ctx = "none"
    /\ state_file = NoFile
    /\ temp_file = NoFile
    /\ notes_dir = {}
    /\ result = "none"
    /\ handled = <<>>
    /\ wrote = <<>>
    /\ save_failed = FALSE
    /\ fresh = FALSE
    /\ no_notes = FALSE
    /\ lastrun = NoRun
    /\ call = NoCall

\* process_channel is sequential code: an enabled step of a run is taken,
\* every call of run_pipeline and every file operation of a save returning
\* or raising.
SpecRun == InitRun /\ [][NextRun]_vars /\ WF_vars(NextRun)

UpdateDone == call.fn = "update_processing_state" /\ call.done

\* C13: update_processing_state leaves one record for the ID, made of the
\* new URL, notes file and status, whether or not the ID had a record, and
\* leaves the record of every other ID as it was.
C13_LastWriteWins ==
    UpdateDone =>
        /\ DOMAIN call.out.processed_videos =
              DOMAIN call.st.processed_videos \cup {call.video_id}
        /\ call.out.processed_videos[call.video_id] =
              [url |-> call.video_url, video_id |-> call.video_id,
               notes_file |-> call.notes_file, processed_at |-> Now(call.st),
               status |-> call.status]
        /\ \A v \in DOMAIN call.st.processed_videos \ {call.video_id} :
              call.out.processed_videos[v] = call.st.processed_videos[v]

\* The ID had a success record with another URL; the new failed record has
\* replaced it and the record of the other ID is as it was.
C13_Witness ==
    /\ UpdateDone
    /\ call.video_id = "1"
    /\ DOMAIN call.st.processed_videos = {"1", "12"}
    /\ call.st.processed_videos["1"].status = "success"
    /\ call.st.processed_videos["1"].url = UrlA
    /\ call.video_url = UrlB
    /\ call.status = "failed"
    /\ call.out.processed_videos["1"].status = "failed"
    /\ call.out.processed_videos["1"].url = UrlB
    /\ call.out.processed_videos["12"] = call.st.processed_videos["12"]

\* C14: update_processing_state adds 1 to the total of its status (success:
\* total_processed, failed: total_failed, skipped: total_skipped) and leaves
\* the two other totals as they were.
C14_OneTotalIncrements ==
    UpdateDone =>
        /\ call.out.total_processed =
              call.st.total_processed + (IF call.status = "success" THEN 1 ELSE 0)
        /\ call.out.total_failed =
              call.st.total_failed + (IF call.status = "failed" THEN 1 ELSE 0)
        /\ call.out.total_skipped =
              call.st.total_skipped + (IF call.status = "skipped" THEN 1 ELSE 0)

\* A skip on a state with totals 1, 1, 1 gives totals 1, 2, 1.
C14_Witness ==
    /\ UpdateDone
    /\ call.status = "skipped"
    /\ Totals(call.st) = <<1, 1, 1>>
    /\ Totals(call.out) = <<1, 2, 1>>

ProcessedDone == call.fn = "is_video_processed" /\ call.done

\* The state of the call has a record for the ID that names a notes file.
CallRecordNamesFile ==
    /\ call.st # NoState
    /\ call.video_id \in DOMAIN call.st.processed_videos
    /\ Truthy(call.st.processed_videos[call.video_id].notes_file)

\* The state of the call is absent or has no record for the ID.
CallHasNoRecord ==
    \/ call.st = NoState
    \/ call.video_id \notin DOMAIN call.st.processed_videos

\* C15: when the state has a record for the ID naming the notes file F,
\* is_video_processed returns (true, F) if F is in the notes directory and
\* (false, absent) if it is not, whatever else the directory holds.
C15_RecordNeedsFile ==
    (ProcessedDone /\ CallRecordNamesFile) =>
        LET F == call.st.processed_videos[call.video_id].notes_file
        IN  /\ F \in call.notes => call.out = <<TRUE, F>>
            /\ F \notin call.notes => call.out = <<FALSE, None>>

\* The file the record names is gone while another file with the ID in its
\* name is there: the video is not processed.
C15_Witness ==
    /\ ProcessedDone
    /\ call.video_id = "1"
    /\ CallRecordNamesFile
    /\ call.st.processed_videos["1"].notes_file = "c:1.md"
    /\ call.notes = {"c:12.md"}
    /\ call.out = <<FALSE, None>>

\* The names run_pipeline can give the notes of the video with the ID.
NotesNamesOf(video_id) ==
    {o.file : o \in {x \in UNION {OutcomesOf[u] : u \in {w \in URLS : VideoIdOf[w] = video_id}} :
                        x.kind = "notes"}}

\* C16: when the state is absent or has no record for the ID,
\* is_video_processed returns (true, a file of the directory with the ID in
\* its name) if there is such a file and (false, absent) if not; and it
\* returns true when the directory holds the notes run_pipeline wrote for
\* the video.
C16_FallbackFindsNotes ==
    (ProcessedDone /\ CallHasNoRecord) =>
        /\ call.out[1] <=> \E f \in call.notes : Contains(f, call.video_id)
        /\ call.out[1] => call.out[2] \in call.notes /\ Contains(call.out[2], call.video_id)
        /\ ~call.out[1] => call.out[2] = None
        /\ (call.notes \cap NotesNamesOf(call.video_id) # {}) => call.out[1]

Returned == At("returned")

FourStages == {"download", "extract", "transcribe", "summarize"}

FourCalls ==
    <<"download_video", "extract_audio", "transcribe_audio", "summarize_transcript">>

\* The four collaborators were called and none raised, on a backend.
AllStagesSucceeded ==
    /\ call.calls = FourCalls
    /\ call.erred \cap FourStages = {}
    /\ call.backend # None

\* The return of lines 117-122: extraction went well and no backend is there.
NoBackendExit ==
    /\ Returned
    /\ call.calls = SubSeq(FourCalls, 1, 2)
    /\ call.erred = {}

\* C17: run_pipeline returns a notes path if and only if the four stages
\* succeeded and the notes were written; when the download, the extraction,
\* the transcription or the summarization fails, or no backend is there, it
\* returns None.
C17_NotesIffAllStagesSucceeded ==
    Returned =>
        /\ call.out.kind = "notes" <=>
              (AllStagesSucceeded /\ "notes" \in call.files)
        /\ call.out.kind = "notes" => call.out.file = call.notes_filename
        /\ (call.erred \cap FourStages # {} \/ NoBackendExit) => call.out = PipelineNone

\* The four stages went well, the notes are on disk under the title and
\* their path is returned.
C17_Witness ==
    /\ Returned
    /\ AllStagesSucceeded
    /\ call.erred = {}
    /\ call.files = {"notes"}
    /\ call.out = [kind |-> "notes", file |-> "c:T.md"]

\* C18 as stated: whatever step of run_pipeline raised, from the making of
\* the directories to the clean up, the call ends with the return of None
\* and raises nothing.
C18_EveryErrorGivesNone ==
    (Returned /\ call.erred # {}) => call.out = PipelineNone

\* C18: an exception of download, extraction, transcription, summarization
\* or of the writing of the notes ends the call with None; an exception of
\* the title generation or of an unlink ends nothing, and the notes path is
\* returned when nothing else raised; an exception of the making of the
\* directories is raised to the caller, and nothing else is.
C18_ErrorsByStep ==
    Returned =>
        /\ call.erred \cap (FourStages \cup {"write_notes"}) # {} =>
              call.out = PipelineNone
        /\ (call.erred # {} /\ call.erred \subseteq {"title", "unlink"}) =>
              call.out = [kind |-> "notes", file |-> call.notes_filename]
        /\ call.out = PipelineRaise <=> call.erred = {"setup"}

\* The title generation and an unlink raised, and the notes path, with the
\* video ID in the place of the title, is returned.
C18_Witness ==
    /\ Returned
    /\ call.url = UrlA
    /\ call.erred = {"title", "unlink"}
    /\ "video" \in call.files
    /\ call.out = [kind |-> "notes", file |-> "c:1.md"]

\* C19: the collaborators are called in the order download_video,
\* extract_audio, transcribe_audio, summarize_transcript, each at most
\* once, and one is called only when every one before it went well (and,
\* for transcribe_audio, a backend is there); after a failed download
\* nothing else is called.
C19_StagesInOrder ==
    call.fn = "run_pipeline" =>
        /\ Len(call.calls) <= Len(FourCalls)
        /\ call.calls = SubSeq(FourCalls, 1, Len(call.calls))
        /\ \A i \in 1..Len(call.calls) :
              \A j \in 1..(i - 1) :
                  \A stage \in FourStages :
                      CollaboratorOf[stage] = FourCalls[j] => stage \notin call.erred
        /\ Len(call.calls) >= 3 => call.backend # None
        /\ "download" \in call.erred => call.calls = <<"download_video">>

\* The download failed and the call returned with one collaborator called.
C19_Witness ==
    /\ Returned
    /\ "download" \in call.erred
    /\ call.calls = <<"download_video">>
    /\ call.out = PipelineNone

\* C20: when run_pipeline returns after a download that went well, the
\* clean up has gone through files_to_delete and has tried to unlink each
\* intermediate file on disk; when it returns for want of a backend, the
\* downloaded video is gone.
C20_CleanupOnEveryExit ==
    (Returned /\ call.calls # <<>> /\ "download" \notin call.erred) =>
        /\ call.k > Len(files_to_delete)
        /\ \A i \in 1..Len(files_to_delete) :
              files_to_delete[i] \in call.files => files_to_delete[i] \in call.tried
        /\ NoBackendExit => "video" \notin call.files

\* run_pipeline returned from the backend test: extract_audio went well and
\* neither backend is there.
ReturnedForNoBackend ==
    /\ Returned
    /\ Len(call.calls) >= 2
    /\ "extract" \notin call.erred
    /\ call.backend = None

\* C21: when extract_audio went well and no backend is there, run_pipeline
\* has called neither transcribe_audio nor summarize_transcript, returns
\* None, raises nothing, and the audio file is on disk.
C21_NoBackendStopsGracefully ==
    ReturnedForNoBackend =>
        /\ call.calls = <<"download_video", "extract_audio">>
        /\ call.out = PipelineNone
        /\ call.erred = {}
        /\ "audio" \in call.files

\* The call returned None for want of a backend, with the video and the
\* audio on disk.
C21_Witness ==
    /\ ReturnedForNoBackend
    /\ call.files = {"video", "audio"}
    /\ call.out = PipelineNone

\* C22: when extract_audio fails, run_pipeline returns None with the
\* downloaded video still on disk.
C22_ExtractFailureKeepsVideo ==
    (Returned /\ "extract" \in call.erred) =>
        /\ call.out = PipelineNone
        /\ "video" \in call.files

\* The extraction failed on a disk that held nothing before the call: the
\* video is there and no audio is.
C22_Witness ==
    /\ Returned
    /\ call.erred = {"extract"}
    /\ call.files = {"video"}
    /\ call.out = PipelineNone

\* C23: when an unlink of the clean up fails, the clean up still goes
\* through all of files_to_delete, trying each that is on disk, and
\* run_pipeline returns the notes path.
C23_UnlinkFailureGoesOn ==
    (Returned /\ "unlink" \in call.erred) =>
        /\ call.k = Len(files_to_delete) + 1
        /\ call.tried = {files_to_delete[i] : i \in 1..Len(files_to_delete)}
        /\ call.out = [kind |-> "notes", file |-> call.notes_filename]
        /\ "notes" \in call.files

\* The unlink of the video, the first of files_to_delete, failed; the audio
\* and the transcript after it were deleted and the notes path is returned.
C23_Witness ==
    /\ Returned
    /\ call.erred = {"unlink"}
    /\ call.files = {"video", "notes"}
    /\ call.out = [kind |-> "notes", file |-> "c:T.md"]

\* C24: when summarize_transcript went well (and the notes file could be
\* written), the notes are on disk and their path is returned, with or
\* without a title: the file name carries the title when the title was
\* made, and the video_id when the title generation failed.
C24_TitleFailureFallsBack ==
    (Returned /\ Len(call.calls) = 4 /\ "summarize" \notin call.erred
              /\ "write_notes" \notin call.erred) =>
        /\ "notes" \in call.files
        /\ call.out = [kind |-> "notes", file |-> call.notes_filename]
        /\ "title" \in call.erred =>
              call.notes_filename =
                  NotesFilename(CHANNEL_NAME, pipeline_video_id(call.url))
        /\ "title" \notin call.erred =>
              call.notes_filename \in {NotesFilename(CHANNEL_NAME, t) : t \in TITLES}

\* The title generation failed on a URL without a video ID, and the notes
\* are returned under the fixed word that stands for the ID.
C24_Witness ==
    /\ Returned
    /\ call.url = UrlN
    /\ call.erred = {"title"}
    /\ "notes" \in call.files
    /\ call.out = [kind |-> "notes", file |-> "c:tiktok_video.md"]

\* C25: load_processing_state raises nothing; it returns None when there
\* is no state file and when the file cannot be read, is not JSON or is
\* not UTF-8, and the document of the file otherwise.
C25_LoadNeverRaises ==
    (call.fn = "load_processing_state" /\ call.done) =>
        /\ ~call.raised
        /\ call.file.kind # "json" => call.out = NoState
        /\ call.file.kind = "json" => call.out = call.file.doc

\* C26: save_processing_state raises nothing, whatever fails in it; when
\* it does not return True it returns False, the temporary file is gone,
\* and the state file is the one saved before, which still loads.
C26_SaveNeverRaises ==
    (call.fn = "save_processing_state" /\ call.at = "returned") =>
        /\ call.out \in {"True", "False"}
        /\ call.out # "True" =>
              /\ call.temp_file = NoFile
              /\ call.state_file = call.before
              /\ call.before.kind = "json" =>
                    load_processing_state(call.state_file) = call.before.doc

\* The save of a video's outcome returns False in this step (the process is
\* not killed in it).
VideoSaveFails ==
    /\ pc \in SavePcs
    /\ save_ctx = "video"
    /\ pc' \notin SavePcs \cup {"idle"}
    /\ wrote' = wrote

\* The save of a video's outcome returns True in this step.
VideoSaveSucceeds == Len(wrote') > Len(wrote)

C28_DistinctChannelsDistinctDirs ==
    (call.fn = "channel_dir" /\ call.done /\ call.url1 # call.url2) =>
        call.dir1 # call.dir2

\* C29: the command ends with a non-zero exit code when the run met a
\* top-level error (wrong usage, a discovery failure, an exception outside
\* the handling of a video) and with 0 otherwise, however many videos
\* failed.
C29_ExitCodeTellsTopLevelError ==
    (call.fn = "main" /\ call.at = "exited") =>
        (call.exit_code # 0 <=> call.error # "none")

\* A state with counters 0, no record and no last processed URL.
IsZeroed(doc) ==
    /\ doc.total_processed = 0
    /\ doc.total_skipped = 0
    /\ doc.total_failed = 0
    /\ DOMAIN doc.processed_videos = {}
    /\ doc.last_processed_url = None

\* A run with reset is in its loop and has not reached the outcome of a video.
ResetRunBeforeOutcomes == reset /\ LoopEntered /\ handled = <<>>

\* C30 as stated: in a run with reset, with or without resume, the loop
\* starts at index 0, and until the first outcome the state in memory is
\* zeroed and the state file holds it.
C30_ResetSavesFreshState ==
    /\ (reset /\ LoopEntered) => start_index = 0
    /\ ResetRunBeforeOutcomes =>
          /\ IsZeroed(state)
          /\ state_file = JsonFile(state)

\* C30, amended: the state file holds the zeroed state when the save
\* returned True; the rest holds in any case.
C30_ResetSavesFreshStateUnlessSaveFails ==
    /\ (reset /\ LoopEntered) => start_index = 0
    /\ ResetRunBeforeOutcomes =>
          /\ IsZeroed(state)
          /\ temp_file = NoFile
          /\ ~save_failed => state_file = JsonFile(state)

\* A run with reset and resume, after a run that saved the outcome of a
\* video, is at the first video of the list, with the zeroed state on disk.
C30_Witness ==
    /\ ResetRunBeforeOutcomes
    /\ resume
    /\ pc = "loop"
    /\ idx = 0
    /\ lastrun.position >= 1
    /\ lastrun.prev_saved
    /\ ~save_failed
    /\ IsZeroed(state_file.doc)

\* The record the state holds for the video of the entry.
RecordOf(st, e) == st.processed_videos[VideoIdOf[UrlAt(e.pos)]]

\* C31: in a run, once last_processed_url is set, last_processed_index is
\* the 0-based position of that URL in the list of the run; and after a
\* success the state holds the position of the video and its notes file.
C31_IndexIsPositionOfUrl ==
    /\ (LoopEntered /\ state.last_processed_url # None) =>
          /\ state.last_processed_index \in 0..(Len(video_urls) - 1)
          /\ UrlAt(state.last_processed_index) = state.last_processed_url
    /\ (LoopEntered /\ handled # <<>> /\ LastHandled.has_id
            /\ LastHandled.outcome = "success") =>
          /\ state.last_processed_index = LastHandled.pos
          /\ Truthy(RecordOf(state, LastHandled).notes_file)

\* A failed outcome of a video with an ID, completed in this run.
CompletedFailure(e) == IsCompleted(e) /\ IsFailed(e)

\* C32 as stated: every video whose run_pipeline call returned no notes
\* path or raised has a record with status failed and no notes file, and
\* that record is in the state file before the next video is handled.
C32_FailuresRecordedAndSaved ==
    LoopEntered =>
        \A j \in 1..Len(handled) :
            CompletedFailure(handled[j]) =>
                /\ InState(handled[j], "failed")
                /\ RecordOf(state, handled[j]).notes_file = None
                /\ OnDisk(handled[j])

\* C32, amended: so it is for a video whose URL yields a video ID; the
\* record is in the state file when no save of the run has failed.
C32_IdentifiedFailuresRecorded ==
    LoopEntered =>
        \A j \in 1..Len(handled) :
            (CompletedFailure(handled[j]) /\ handled[j].has_id) =>
                /\ InState(handled[j], "failed")
                /\ RecordOf(state, handled[j]).notes_file = None
                /\ ~save_failed => OnDisk(handled[j])

\* The first video failed, its failed record is in the state file, and the
\* second video is being handled.
C32_Witness ==
    /\ pc = "pipeline"
    /\ idx = 1
    /\ ~save_failed
    /\ Len(handled) = 1
    /\ handled[1].has_id
    /\ IsFailed(handled[1])
    /\ OnDisk(handled[1])
    /\ state_file.doc.processed_videos[VideoIdOf[UrlAt(0)]].notes_file = None

\* The video at the position has no video ID.
HasNoId(position) == VideoIdOf[UrlAt(position)] = None

\* C34: every video of the processing range whose URL yields no video ID is
\* run through the pipeline, whatever skip_existing, the state and the notes
\* directory are: its outcome is the one of a run_pipeline call, never a skip.
C34_NoIdGoesThroughPipeline ==
    LoopEntered =>
        \A p \in start_index..(idx - 1) :
            HasNoId(p) => /\ Reached(p)
                          /\ OutcomeAt(p) \in {"success", "failed"}

\* A video without an ID has been run through the pipeline in a run with
\* skip_existing, a state with records and notes in the notes directory.
C34_Witness ==
    /\ pc = "loop"
    /\ skip_existing
    /\ notes_dir # {}
    /\ DOMAIN state.processed_videos # {}
    /\ \E p \in start_index..(idx - 1) :
          HasNoId(p) /\ Reached(p) /\ OutcomeAt(p) \in {"success", "failed"}

\* Every record is stored under its own video ID, names a notes file exactly
\* when its status is not failed, and the totals count at least the records.
RecordsWellFormed(st) ==
    /\ \A k \in DOMAIN st.processed_videos :
          LET rec == st.processed_videos[k]
          IN  /\ rec.video_id = k
              /\ rec.status \in {"success", "skipped"} => Truthy(rec.notes_file)
              /\ rec.status = "failed" => rec.notes_file = None
    /\ st.total_processed + st.total_skipped + st.total_failed
          >= Cardinality(DOMAIN st.processed_videos)

\* C38: in every state reached through channel runs, in memory and in the
\* state file, each record is stored under the key equal to its video_id,
\* success and skipped records name a notes file, failed records name none,
\* and the three totals sum to at least the number of records.
C38_RecordsWellFormed ==
    /\ state # NoState => RecordsWellFormed(state)
    /\ state_file.kind = "json" => RecordsWellFormed(state_file.doc)

\* The state file holds two records of different statuses.
C38_Witness ==
    /\ state_file.kind = "json"
    /\ \E k1, k2 \in DOMAIN state_file.doc.processed_videos :
          /\ state_file.doc.processed_videos[k1].status = "failed"
          /\ state_file.doc.processed_videos[k2].status \in {"success", "skipped"}

\* A step of the handling of a video without an ID: the loop calls
\* run_pipeline for it, or the call ends and the run goes on.
HandlesVideoWithoutId ==
    /\ idx < Len(video_urls)
    /\ HasNoId(idx)
    /\ \/ pc = "loop" /\ pc' = "pipeline"
       \/ pc = "pipeline" /\ pc' # "idle"

\* C35: handling a video without an ID leaves the processing state as it is,
\* in memory and in the state file: no record, no total, last_processed_url
\* and last_processed_index as before, and no save is started, whether
\* run_pipeline gives notes, gives none or raises; the loop goes on with the
\* next video.
C35_NoIdLeavesStateAlone ==
    [][HandlesVideoWithoutId =>
          /\ state' = state
          /\ state_file' = state_file
          /\ temp_file' = temp_file
          /\ wrote' = wrote
          /\ pc' \notin SavePcs
          /\ pc = "pipeline" => (pc' = "loop" /\ idx' = idx + 1)]_vars

\* A video without an ID has failed after a video with a record, and the
\* state still names that earlier video as the last processed one.
C35_Witness ==
    /\ pc = "loop"
    /\ handled # <<>>
    /\ ~LastHandled.has_id
    /\ LastHandled.outcome = "failed"
    /\ LastHandled.pos > 0
    /\ state.last_processed_url = UrlAt(LastHandled.pos - 1)
    /\ state_file = JsonFile(state)

\* The state holds no record of the video at the position, and the notes
\* directory holds no notes run_pipeline can have written for it.
NeverDone(position) ==
    /\ VideoIdOf[UrlAt(position)] \notin DOMAIN state.processed_videos
    /\ \A o \in OutcomesOf[UrlAt(position)] : o.file \notin notes_dir

\* C36: a run with resume that has come to its summary has handled every
\* video of its list that has no record in the state and no notes in the
\* notes directory, the videos the channel lists before the recorded
\* last_processed_url included.
C36_ResumeHandlesEveryNewVideo ==
    (pc = "done" /\ resume) =>
        \A p \in 0..(Len(video_urls) - 1) : NeverDone(p) => Reached(p)

\* The run has handled no video and written nothing: the state file holds
\* what it held when the run loaded it.
NothingDone ==
    /\ start_index = Len(video_urls)
    /\ handled = <<>>
    /\ wrote = <<>>
    /\ pc \notin SavePcs \cup {"pipeline"}
    /\ state_file = JsonFile(state)

\* C39 as stated: a run with resume over the list of a run that handled
\* every video of it handles no video and leaves the state file as it found
\* it: records, totals, last_processed_url and last_updated.
C39_RerunIsIdempotent ==
    (LoopEntered /\ resume /\ ~fresh /\ lastrun.position = Len(video_urls))
    => NothingDone

\* C39, amended: it is so when the ended run handled the last video of the
\* list, that video has a video ID, and no save of the ended run failed.
C39_RerunAfterSavedRunIsIdempotent ==
    (LoopEntered /\ resume /\ ~fresh /\ lastrun.position = Len(video_urls)
        /\ lastrun.prev_saved)
    => NothingDone

\* The run after a complete run of two videos whose last video succeeded has
\* ended, and the state file holds the records and totals of the ended run.
C39_Witness ==
    /\ pc = "done"
    /\ resume
    /\ ~fresh
    /\ Len(video_urls) = 2
    /\ lastrun.position = 2
    /\ lastrun.prev_saved
    /\ ~lastrun.prev_failed
    /\ NothingDone
    /\ state_file.doc.last_processed_url = UrlAt(1)
    /\ state_file.doc.total_processed >= 1

\* C37: is_video_processed reports no video processed without its notes:
\* when it returns true, the filename it returns is not absent and is the
\* name of a file the notes directory holds at the call; when it returns
\* false, the filename is absent.
C37_ProcessedNamesExistingFile ==
    ProcessedDone =>
        /\ call.out[1] => (Truthy(call.out[2]) /\ call.out[2] \in call.notes)
        /\ ~call.out[1] => call.out[2] = None

\* The state has no record for the ID and the directory search found the
\* notes by the ID in their name.
C37_Witness ==
    /\ ProcessedDone
    /\ CallHasNoRecord
    /\ call.video_id = "1"
    /\ call.out[1]
    /\ call.out[2] \in call.notes
    /\ GlobMatches[call.out[2], "1"]

\* A run is under way and the model has a run_pipeline call left for each
\* video from the loop's position to the end of the list.
RunUnderWay ==
    /\ pc \notin {"idle", "done"}
    /\ work + (Len(video_urls) - idx) <= MaxWork

====
